---------------------------- MODULE Spec2Model ----------------------------
(***************************************************************************)
(* A model of FakeCloudwatchLogs (socketsupply/fake-aws): the in-memory    *)
(* store of log groups, log streams and log events, its pagination tokens  *)
(* and the delayed update of a stream's lastEventTimestamp.                *)
(*                                                                         *)
(* Strings are sequences of one-character strings, so that the composite   *)
(* keys the code builds by concatenation ("profile::region::group") and    *)
(* its string comparisons are computed as the code computes them.          *)
(***************************************************************************)
EXTENDS Integers, Sequences, FiniteSets, TLC

VARIABLES
    rawGroups,       \* this.rawGroups : key -> LogGroup[]   (absent key = undefined)
    rawStreams,      \* this.rawStreams: key -> LogStream[]
    rawEvents,       \* this.rawEvents : key -> OutputLogEvent[]
    tokens,          \* this.tokens    : token -> { offset }
    idCounter,       \* number of cuuid() values handed out so far
    now,             \* Date.now()
    ingestionDelay,  \* this.ingestionDelay
    last,            \* the last call: its parameters and its outcome
    consumed,        \* history: the registered tokens that a call has used
    walk,            \* history: the pages a client got by following tokens
    inflight         \* the HTTP requests: sent, body received ('end'), answered

vars == <<rawGroups, rawStreams, rawEvents, tokens, idCounter, now,
          ingestionDelay, last, consumed, walk, inflight>>

store == <<rawGroups, rawStreams, rawEvents>>

-----------------------------------------------------------------------------
(* Bounds of the model. *)

\* cuuid() values the model hands out
MaxTokens == 8
\* events kept per stream
MaxEvents == 3
\* groups kept per scope
MaxGroups == 3
\* streams kept per group
MaxStreams == 3
\* the largest explicit limit a request carries
MaxLimit == 2
\* ticks of the clock after construction
MaxTicks == 2

-----------------------------------------------------------------------------
(* Program constants. *)

HOUR == 3600000
INGESTION_DELAY == 1 * HOUR
DefaultListLimit == 50
DefaultEventsLimit == 10000

\* JavaScript's undefined, for a numeric field that was never set.
Undefined == -1
\* No token in the request (body.nextToken is undefined or "").
NoToken == 0
\* A token that names a property every object inherits ("constructor"):
\* this.tokens[token] is then found although it was never registered.
InheritedToken == -2

IsNumber(x) == x # Undefined
Truthy(x) == x # Undefined /\ x # 0

-----------------------------------------------------------------------------
(* Strings. *)

Sep == <<":", ":">>

CharCode(c) ==
    CASE c = "-" -> 45
      [] c = "1" -> 49
      [] c = "2" -> 50
      [] c = ":" -> 58
      [] c = "a" -> 97
      [] c = "b" -> 98
      [] c = "g" -> 103
      [] c = "h" -> 104
      [] c = "p" -> 112
      [] c = "q" -> 113
      [] c = "r" -> 114
      [] c = "s" -> 115
      [] OTHER -> 0

Min(a, b) == IF a < b THEN a ELSE b
Max(a, b) == IF a > b THEN a ELSE b

\* a < b for two sequences of character codes, as JavaScript compares strings
CodesLess(a, b) ==
    \E k \in 1..(Min(Len(a), Len(b)) + 1) :
        /\ \A j \in 1..(k - 1) : a[j] = b[j]
        /\ IF k > Len(a) THEN k <= Len(b)
           ELSE k <= Len(b) /\ a[k] < b[k]

StrCodes(s) == [i \in 1..Len(s) |-> CharCode(s[i])]

StrLess(a, b) == CodesLess(StrCodes(a), StrCodes(b))

\* a test that every name passes
StartsAnyhow(s, prefix) == TRUE

\* String.prototype.startsWith
StartsWith(s, prefix) ==
    /\ Len(prefix) <= Len(s)
    /\ SubSeq(s, 1, Len(prefix)) = prefix

\* Number.prototype.toString of a non-negative integer, as character codes
RECURSIVE DecimalCodes(_)
DecimalCodes(n) ==
    IF n < 0 THEN <<45>> \o DecimalCodes(-n)
    ELSE IF n < 10 THEN <<48 + n>>
    ELSE Append(DecimalCodes(n \div 10), 48 + (n % 10))

-----------------------------------------------------------------------------
(* Arrays. *)

\* Array.prototype.slice(start, end)
Slice(s, start, end) ==
    LET n == Len(s)
        k == IF start < 0 THEN Max(n + start, 0) ELSE Min(start, n)
        f == IF end < 0 THEN Max(n + end, 0) ELSE Min(end, n)
    IN  SubSeq(s, k + 1, f)

\* a reverse() that leaves the array as it is
NotReversed(s) == s

\* Array.prototype.reverse
Reverse(s) == [i \in 1..Len(s) |-> s[Len(s) + 1 - i]]

\* lines 429-433: the comparator of events.sort
EventCmp(a, b) ==
    IF ~Truthy(a.timestamp) THEN 1
    ELSE IF ~Truthy(b.timestamp) THEN -1
    ELSE IF a.timestamp < b.timestamp THEN -1 ELSE 1

\* a comparator that puts the streams without a name last
StreamCmpNamelessLast(a, b) ==
    IF b.logStreamName = <<>> THEN -1
    ELSE IF a.logStreamName = <<>> THEN 1
    ELSE IF StrLess(a.logStreamName, b.logStreamName) THEN -1 ELSE 1

\* lines 709-713: the comparator of the sort by name (<<>> is a missing name)
StreamCmp(a, b) ==
    IF a.logStreamName = <<>> THEN -1
    ELSE IF b.logStreamName = <<>> THEN 1
    ELSE IF StrLess(a.logStreamName, b.logStreamName) THEN -1 ELSE 1

\* Array.prototype.sort() without a comparator: by the elements' strings
DefaultCmp(a, b) == IF CodesLess(DecimalCodes(a), DecimalCodes(b)) THEN -1 ELSE 1

\* the comparator a call of sort is given
Compare(cmp, a, b) ==
    CASE cmp = "events" -> EventCmp(a, b)
      [] cmp = "streams" -> StreamCmp(a, b)
      [] OTHER -> DefaultCmp(a, b)

\* One step of the engine's insertion sort: x goes behind every element it
\* does not compare below.
Insert(pre, x, cmp) ==
    LET pos == Cardinality({i \in 1..Len(pre) : Compare(cmp, x, pre[i]) >= 0})
    IN  SubSeq(pre, 1, pos) \o <<x>> \o SubSeq(pre, pos + 1, Len(pre))

\* Array.prototype.sort(cmp)
Sort(s, cmp) ==
    LET f[k \in 0..Len(s)] ==
            IF k = 0 THEN <<>> ELSE Insert(f[k - 1], s[k], cmp)
    IN  f[Len(s)]

SortDefault(s) == Sort(s, "default")

-----------------------------------------------------------------------------
(* Keys. *)

ScopeKey(profile, region) == profile \o Sep \o region

StreamsKey(profile, region, groupName) ==
    ScopeKey(profile, region) \o Sep \o groupName

EventsKey(profile, region, groupName, streamName) ==
    StreamsKey(profile, region, groupName) \o Sep \o streamName

\* map[key] || []
GetOr(map, key) == IF key \in DOMAIN map THEN map[key] ELSE <<>>

\* map[key] = value
Put(map, key, value) ==
    [k \in DOMAIN map \cup {key} |-> IF k = key THEN value ELSE map[k]]

-----------------------------------------------------------------------------
(* Records. *)

\* makeLogStream(name): a stream whose metadata is not set yet
MakeLogStream(name) ==
    [logStreamName |-> name,
     firstEventTimestamp |-> Undefined,
     lastEventTimestamp |-> Undefined,
     lastIngestionTime |-> Undefined]

\* an event; message is "m" for a string and "" for a value that is no string
MakeLogEvent(timestamp, ingestionTime) ==
    [timestamp |-> timestamp, ingestionTime |-> ingestionTime, message |-> "m"]

IsString(m) == m # ""

\* The parameters and the outcome of a call; a call fills in what it uses.
Blank ==
    [op |-> "none", profile |-> <<>>, region |-> <<>>, groupName |-> <<>>,
     streamName |-> <<>>, token |-> NoToken, limit |-> 0, orderBy |-> "",
     descending |-> FALSE, prefix |-> <<>>, startTime |-> 0, endTime |-> 0,
     batch |-> <<>>, err |-> "", items |-> <<>>, nextToken |-> NoToken,
     nextForwardToken |-> NoToken, nextBackwardToken |-> NoToken,
     offset |-> 0, offsetIsNaN |-> FALSE, resolved |-> FALSE, at |-> 0]

\* No client is following tokens.
Idle ==
    [active |-> FALSE, req |-> Blank, pages |-> <<>>, dirs |-> <<>>,
     nextToken |-> NoToken, nextForwardToken |-> NoToken,
     nextBackwardToken |-> NoToken, appended |-> FALSE]

\* The store changed under the client that follows tokens: a client that
\* pages through events goes on, one that pages through a list gives up.
WalkAfterPopulate(w, changed) ==
    IF w.active /\ changed
      THEN IF w.req.op = "getLogEvents" THEN [w EXCEPT !.appended = TRUE]
           ELSE [active |-> FALSE, req |-> Blank, pages |-> <<>>, dirs |-> <<>>,
                 nextToken |-> NoToken, nextForwardToken |-> NoToken,
                 nextBackwardToken |-> NoToken, appended |-> FALSE]
    ELSE w

-----------------------------------------------------------------------------
(* populateGroups, populateStreams *)

\* an append of groups that leaves this.rawStreams alone
KeepStreams(map, key, newGroups) == map

RECURSIVE EnsureStreams(_, _, _)
\* lines 385-390: every new group gets a stream list unless it has one
EnsureStreams(map, key, newGroups) ==
    IF newGroups = <<>> THEN map
    ELSE LET streamKey == key \o Sep \o Head(newGroups)
             next == IF streamKey \in DOMAIN map THEN map
                     ELSE Put(map, streamKey, <<>>)
         IN  EnsureStreams(next, key, Tail(newGroups))

PopulateGroups(profile, region, newGroups) ==
    LET key == ScopeKey(profile, region)
        groups == GetOr(rawGroups, key) \o newGroups
    IN  /\ Len(groups) <= MaxGroups
        /\ rawGroups' = Put(rawGroups, key, groups)
        /\ rawStreams' = EnsureStreams(rawStreams, key, newGroups)
        /\ last' = [Blank EXCEPT !.op = "populateGroups", !.profile = profile,
                                 !.region = region, !.batch = newGroups]
        /\ walk' = WalkAfterPopulate(walk, TRUE)
        /\ UNCHANGED <<rawEvents, tokens, idCounter, now, ingestionDelay, consumed,
                     inflight>>

PopulateStreams(profile, region, groupName, newStreams) ==
    LET key == StreamsKey(profile, region, groupName)
        streams == GetOr(rawStreams, key) \o newStreams
    IN  /\ Len(streams) <= MaxStreams
        /\ rawStreams' = Put(rawStreams, key, streams)
        /\ last' = [Blank EXCEPT !.op = "populateStreams", !.profile = profile,
                                 !.region = region, !.groupName = groupName,
                                 !.batch = newStreams]
        /\ walk' = WalkAfterPopulate(walk, TRUE)
        /\ UNCHANGED <<rawGroups, rawEvents, tokens, idCounter, now,
                       ingestionDelay, consumed, inflight>>

-----------------------------------------------------------------------------
(* populateEvents *)

\* assertions that look at the first event of the batch only
BatchErrorOfFirst(newEvents) ==
    IF Len(newEvents) = 0 THEN "Cannot add empty events array"
    ELSE IF ~IsNumber(newEvents[1].timestamp) THEN "Must have timestamp field"
    ELSE IF ~IsString(newEvents[1].message) THEN "Must have message field"
    ELSE IF ~IsNumber(newEvents[1].ingestionTime) THEN "Must have ingestionTime"
    ELSE ""

\* lines 417-422: the assertions on the batch; "" when they all pass
BatchError(newEvents) ==
    IF Len(newEvents) = 0 THEN "Cannot add empty events array"
    ELSE LET bad == {i \in 1..Len(newEvents) :
                        \/ ~IsNumber(newEvents[i].timestamp)
                        \/ ~IsString(newEvents[i].message)
                        \/ ~IsNumber(newEvents[i].ingestionTime)}
         IN  IF bad = {} THEN ""
             ELSE LET i == CHOOSE j \in bad : \A k \in bad : j <= k
                  IN  IF ~IsNumber(newEvents[i].timestamp)
                        THEN "Must have timestamp field"
                      ELSE IF ~IsString(newEvents[i].message)
                        THEN "Must have message field"
                      ELSE "Must have ingestionTime"

\* lines 427-433
MergeEvents(old, newEvents) == Sort(old \o newEvents, "events")

\* lines 442-444: the index of the first stream of that name, 0 for none
FindStream(streams, streamName) ==
    LET hits == {i \in 1..Len(streams) : streams[i].logStreamName = streamName}
    IN  IF hits = {} THEN 0 ELSE CHOOSE i \in hits : \A j \in hits : i <= j

\* lines 452-454: the assertions inside the loop over all events
LoopError(events) ==
    LET bad == {i \in 1..Len(events) :
                    ~Truthy(events[i].timestamp) \/ ~Truthy(events[i].ingestionTime)}
    IN  IF bad = {} THEN ""
        ELSE LET i == CHOOSE j \in bad : \A k \in bad : j <= k
             IN  IF ~Truthy(events[i].timestamp) THEN "valid timestamp"
                 ELSE "valid ingestionTime"

SeqMax(s, init) ==
    LET f[k \in 0..Len(s)] == IF k = 0 THEN init ELSE Max(f[k - 1], s[k])
    IN  f[Len(s)]

Timestamps(events) == [i \in 1..Len(events) |-> events[i].timestamp]
IngestionTimes(events) == [i \in 1..Len(events) |-> events[i].ingestionTime]

\* a scan that takes the largest ingestionTime for the largest timestamp
OldestTsOfIngestion(events) == SeqMax(IngestionTimes(events), 0)

\* lines 449-464
OldestTs(events) == SeqMax(Timestamps(events), 0)
OldestIngestion(events) == SeqMax(IngestionTimes(events), 0)
YoungestTs(events) ==
    CHOOSE t \in {events[i].timestamp : i \in 1..Len(events)} :
        \A i \in 1..Len(events) : t <= events[i].timestamp

\* a condition that lets lastEventTimestamp move back
VisibleBelow(timestamp, nowMs, delay, lastIngestionTime, lastEventTimestamp) ==
    /\ timestamp < nowMs - delay
    /\ timestamp < lastIngestionTime - delay

\* a condition that does not look at lastIngestionTime
VisibleUningested(timestamp, nowMs, delay, lastIngestionTime, lastEventTimestamp) ==
    /\ timestamp < nowMs - delay
    /\ timestamp > lastEventTimestamp

\* lines 485-489
Visible(timestamp, nowMs, delay, lastIngestionTime, lastEventTimestamp) ==
    /\ timestamp < nowMs - delay
    /\ timestamp < lastIngestionTime - delay
    /\ timestamp > lastEventTimestamp

\* lines 481-493: the first timestamp of the sorted, reversed list that is
\* visible, or the old value
AdvanceLast(events, nowMs, delay, lastIngestionTime, lastEventTimestamp) ==
    LET timestamps == Reverse(SortDefault(Timestamps(events)))
        hits == {i \in 1..Len(timestamps) :
                    Visible(timestamps[i], nowMs, delay, lastIngestionTime,
                            lastEventTimestamp)}
    IN  IF hits = {} THEN lastEventTimestamp
        ELSE timestamps[CHOOSE i \in hits : \A j \in hits : i <= j]

\* lines 476-494
UpdateLast(stream, events, nowMs, delay) ==
    LET s1 == [stream EXCEPT !.lastIngestionTime = OldestIngestion(events)]
    IN  IF ~Truthy(s1.lastEventTimestamp)
          THEN [s1 EXCEPT !.lastEventTimestamp = OldestTs(events)]
        ELSE [s1 EXCEPT !.lastEventTimestamp =
                    AdvanceLast(events, nowMs, delay, s1.lastIngestionTime,
                                s1.lastEventTimestamp)]

ConsistencyError == "Cannot populateEvents() that are younger then existing events"

\* a check that records the oldest stored timestamp whatever was recorded
FirstEventOverwrite(stream, events) ==
    [err |-> "",
     stream |-> [stream EXCEPT !.firstEventTimestamp = YoungestTs(events)]]

\* a check that never refuses
FirstEventUnchecked(stream, events) ==
    IF Truthy(stream.firstEventTimestamp) THEN [err |-> "", stream |-> stream]
    ELSE [err |-> "",
          stream |-> [stream EXCEPT !.firstEventTimestamp = YoungestTs(events)]]

\* lines 466-474: the check of firstEventTimestamp, and the stream it leaves
FirstEventCheck(stream, events) ==
    IF Truthy(stream.firstEventTimestamp)
      THEN IF YoungestTs(events) # stream.firstEventTimestamp
             THEN [err |-> ConsistencyError, stream |-> stream]
           ELSE [err |-> "", stream |-> stream]
    ELSE [err |-> "",
          stream |-> [stream EXCEPT !.firstEventTimestamp = YoungestTs(events)]]

PopulateEvents(profile, region, groupName, streamName, newEvents) ==
    LET key == EventsKey(profile, region, groupName, streamName)
        streamKey == StreamsKey(profile, region, groupName)
        call == [Blank EXCEPT !.op = "populateEvents", !.profile = profile,
                              !.region = region, !.groupName = groupName,
                              !.streamName = streamName, !.batch = newEvents,
                              !.at = now]
        events == MergeEvents(GetOr(rawEvents, key), newEvents)
        streams == GetOr(rawStreams, streamKey)
        idx == FindStream(streams, streamName)
        first == FirstEventCheck(streams[idx], events)
        stream == UpdateLast(first.stream, events, now, ingestionDelay)
    IN  /\ Len(GetOr(rawEvents, key)) + Len(newEvents) <= MaxEvents
        /\ IF BatchError(newEvents) # ""
             THEN /\ last' = [call EXCEPT !.err = BatchError(newEvents)]
                  /\ UNCHANGED <<rawEvents, rawStreams>>
           ELSE /\ rawEvents' = Put(rawEvents, key, events)
                /\ IF streamKey \notin DOMAIN rawStreams
                     THEN /\ last' = [call EXCEPT !.err = "could not find streams for: "]
                          /\ UNCHANGED rawStreams
                   ELSE IF idx = 0
                     THEN /\ last' = [call EXCEPT !.err = "could not find stream: "]
                          /\ UNCHANGED rawStreams
                   ELSE IF LoopError(events) # ""
                     THEN /\ last' = [call EXCEPT !.err = LoopError(events)]
                          /\ UNCHANGED rawStreams
                   ELSE IF first.err # ""
                     THEN /\ last' = [call EXCEPT !.err = first.err]
                          /\ UNCHANGED rawStreams
                   ELSE /\ rawStreams' = [rawStreams EXCEPT
                                            ![streamKey] = [streams EXCEPT ![idx] = stream]]
                        /\ last' = call
        /\ walk' = WalkAfterPopulate(walk, <<rawStreams', rawEvents'>> # <<rawStreams, rawEvents>>)
        /\ UNCHANGED <<rawGroups, tokens, idCounter, now, ingestionDelay, consumed,
                     inflight>>

-----------------------------------------------------------------------------
(* Tokens. *)

InvalidToken == "invalid nextToken: "

\* a lookup that takes every token for a registered one
AnyTokenFound(token) == TRUE

\* this.tokens[token] is truthy: a registered token, or an inherited property
TokenFound(token) == token = InheritedToken \/ token \in DOMAIN tokens

\* tokenInfo.offset; an inherited property has no offset (undefined, NaN in sums)
TokenInfo(token) ==
    IF token \in DOMAIN tokens THEN tokens[token]
    ELSE [offset |-> 0, isNaN |-> TRUE]

\* a registry that keeps the token it was asked to delete
KeepToken(toks, token) == toks

\* delete this.tokens[token]
DeleteToken(toks, token) == [t \in DOMAIN toks \ {token} |-> toks[t]]

\* lines 604-613, 798-807: the offset a request's token resolves to
Resolve(token) ==
    IF token = NoToken THEN [err |-> "", offset |-> 0, isNaN |-> FALSE]
    ELSE IF ~TokenFound(token) THEN [err |-> InvalidToken, offset |-> 0, isNaN |-> FALSE]
    ELSE [err |-> "", offset |-> TokenInfo(token).offset, isNaN |-> TokenInfo(token).isNaN]

\* a page end that ignores the limit of the request
PageEndDefault(offset, limit) == offset + DefaultListLimit

\* line 615: the end of a list page
PageEnd(offset, limit) == offset + (IF limit # 0 THEN limit ELSE DefaultListLimit)

\* a token that stands one item too far
NextPageSkips(end) == [offset |-> end + 1, isNaN |-> FALSE]

\* line 622: what the token of the next page stands for
NextPage(end) == [offset |-> end, isNaN |-> FALSE]

\* lines 603-626: paginate, as the fields it adds to the call's outcome
\* and the token registry it leaves
Paginate(call, rawItems, prevToken, limit) ==
    LET r == Resolve(prevToken)
        kept == IF prevToken = NoToken THEN tokens ELSE DeleteToken(tokens, prevToken)
        end == PageEnd(r.offset, limit)
        items == IF r.isNaN THEN <<>> ELSE Slice(rawItems, r.offset, end)
        more == ~r.isNaN /\ Len(rawItems) > end
        nextToken == idCounter + 1
        out == [call EXCEPT !.items = items, !.offset = r.offset,
                            !.offsetIsNaN = r.isNaN,
                            !.resolved = prevToken \in DOMAIN tokens]
    IN  IF r.err # ""
          THEN [out |-> [call EXCEPT !.err = r.err], tokens |-> kept, minted |-> 0]
        ELSE IF more
          THEN [out |-> [out EXCEPT !.nextToken = nextToken],
                tokens |-> Put(kept, nextToken, NextPage(end)),
                minted |-> 1]
        ELSE [out |-> out, tokens |-> kept, minted |-> 0]

-----------------------------------------------------------------------------
(* The pages a client collects. *)

SameQuery(r, q) ==
    /\ r.op = q.op /\ r.profile = q.profile /\ r.region = q.region
    /\ r.groupName = q.groupName /\ r.streamName = q.streamName
    /\ r.limit = q.limit /\ r.orderBy = q.orderBy
    /\ r.descending = q.descending /\ r.prefix = q.prefix
    /\ r.startTime = q.startTime /\ r.endTime = q.endTime

Following(w, r) ==
    /\ w.active
    /\ r.token # NoToken
    /\ r.token \in {w.nextToken, w.nextForwardToken, w.nextBackwardToken}

Direction(w, r) ==
    IF r.token = w.nextToken THEN "n"
    ELSE IF r.token = w.nextBackwardToken THEN "b" ELSE "f"

\* r is the call just made
WalkAfterRead(w, r) ==
    IF r.err = "" /\ r.token = NoToken
      THEN [active |-> TRUE, req |-> r, pages |-> <<r.items>>, dirs |-> <<>>,
            nextToken |-> r.nextToken, nextForwardToken |-> r.nextForwardToken,
            nextBackwardToken |-> r.nextBackwardToken, appended |-> FALSE]
    ELSE IF Following(w, r) /\ r.resolved /\ SameQuery(r, w.req)
      THEN [w EXCEPT !.pages = Append(@, r.items),
                     !.dirs = Append(@, Direction(w, r)),
                     !.nextToken = r.nextToken,
                     !.nextForwardToken = r.nextForwardToken,
                     !.nextBackwardToken = r.nextBackwardToken]
    ELSE IF Following(w, r) /\ r.resolved THEN Idle
    ELSE w

\* a call of somebody else: it ends the client's walk if it took its token
WalkAfterOther(w, r) ==
    IF Following(w, r) /\ r.resolved THEN Idle ELSE w

\* a list call that sorts and reverses the stored array itself
OrderedInPlace(streams, orderBy, descending) ==
    LET sorted == IF orderBy = "" \/ orderBy = "LogStreamName"
                    THEN Sort(streams, "streams") ELSE streams
    IN  IF descending THEN Reverse(sorted) ELSE sorted

\* lines 706-724: sort() and reverse() work on the slice() copy, the stored
\* array keeps its order
StoredAfterList(streams, orderBy, descending) == streams

\* this.rawStreams as a call with outcome out leaves it: describeLogStreams
\* gets to line 706 when the group name and orderBy are valid and the group
\* is known, and to line 722 unless the prefix conflict is thrown
StreamsAfter(out) ==
    LET key == StreamsKey(out.profile, out.region, out.groupName)
    IN  IF /\ out.op = "describeLogStreams"
           /\ out.groupName # <<>>
           /\ out.orderBy \in {"", "LogStreamName", "LastEventTime"}
           /\ key \in DOMAIN rawStreams
          THEN [rawStreams EXCEPT ![key] =
                   StoredAfterList(@, out.orderBy,
                                   out.descending
                                     /\ ~(out.orderBy = "LastEventTime"
                                            /\ out.prefix # <<>>))]
        ELSE rawStreams

\* lines 664-667, 690-720, 783-786: the call r gets as far as looking its
\* token up: listGroups on a populated scope, listStreams with valid
\* parameters on a known group, queryEvents on a key under which events are
\* stored
ReachesToken(r) ==
    CASE r.op = "describeLogGroups" ->
           ScopeKey(r.profile, r.region) \in DOMAIN rawGroups
      [] r.op = "describeLogStreams" ->
           /\ r.groupName # <<>>
           /\ r.orderBy \in {"", "LogStreamName", "LastEventTime"}
           /\ StreamsKey(r.profile, r.region, r.groupName) \in DOMAIN rawStreams
           /\ ~(r.orderBy = "LastEventTime" /\ r.prefix # <<>>)
      [] r.op = "getLogEvents" ->
           EventsKey(r.profile, r.region, r.groupName, r.streamName)
               \in DOMAIN rawEvents
      [] OTHER -> FALSE

\* who makes a call: the client that collects pages, another caller of the
\* methods, or the handler of one of two HTTP requests
Walker == "walker"
Other == "other"
Requests == {"r1", "r2"}

\* a request that was not sent
NoRequest ==
    [state |-> "idle", op |-> "none", token |-> NoToken, overlap |-> FALSE,
     reached |-> FALSE, out |-> Blank]

\* lines 573-593: the response to request client is written when its
\* handler returns or throws
Answered(reqs, client, out) ==
    IF client \in Requests
      THEN [reqs EXCEPT ![client] = [@ EXCEPT !.state = "done", !.out = out,
                                              !.reached = ReachesToken(out)]]
    ELSE reqs

\* what a read leaves of the token registry, the histories and the requests;
\* client tells who makes the call
Finish(out, toks, minted, client) ==
    /\ idCounter + minted <= MaxTokens
    /\ last' = out
    /\ tokens' = toks
    /\ idCounter' = idCounter + minted
    /\ consumed' = IF out.resolved THEN consumed \cup {out.token} ELSE consumed
    /\ walk' = IF client = Walker THEN WalkAfterRead(walk, out)
               ELSE WalkAfterOther(walk, out)
    /\ rawStreams' = StreamsAfter(out)
    /\ inflight' = Answered(inflight, client, out)
    /\ UNCHANGED <<rawGroups, rawEvents, now, ingestionDelay>>

-----------------------------------------------------------------------------
(* describeLogGroups *)

\* an unknown key that is answered with an error
UnknownKeyFails(call) == [call EXCEPT !.err = "The specified key does not exist."]

\* lines 664-667, 783-786: an unknown key is answered with an empty result;
\* the token of the request is not looked at
EmptyResult(call) == call

DescribeLogGroups(profile, region, nextToken, limit, client) ==
    LET key == ScopeKey(profile, region)
        call == [Blank EXCEPT !.op = "describeLogGroups", !.profile = profile,
                              !.region = region, !.token = nextToken,
                              !.limit = limit]
        page == Paginate(call, rawGroups[key], nextToken, limit)
    IN  IF key \notin DOMAIN rawGroups
          THEN Finish(EmptyResult(call), tokens, 0, client)
        ELSE Finish(page.out, page.tokens, page.minted, client)

-----------------------------------------------------------------------------
(* describeLogStreams *)

\* lines 706-732: the list that is paginated
\* a handler that sorts by name whatever orderBy says
OrderedByNameAlways(streams, orderBy, descending, prefix) ==
    LET sorted == Sort(streams, "streams")
        turned == IF descending THEN Reverse(sorted) ELSE sorted
        Keep(s) == s.logStreamName # <<>> /\ StartsWith(s.logStreamName, prefix)
    IN  IF prefix # <<>> THEN SelectSeq(turned, Keep) ELSE turned

OrderedStreams(streams, orderBy, descending, prefix) ==
    LET sorted == IF orderBy = "" \/ orderBy = "LogStreamName"
                    THEN Sort(streams, "streams") ELSE streams
        turned == IF descending THEN Reverse(sorted) ELSE sorted
        Keep(s) == s.logStreamName # <<>> /\ StartsWith(s.logStreamName, prefix)
    IN  IF prefix # <<>> THEN SelectSeq(turned, Keep) ELSE turned

MissingGroupName == "Missing required key 'logGroupName' in params"
InvalidOrderBy == "Invalid required key 'orderBy' in params"
GroupNotFound == "The specified log group does not exist."
PrefixConflict == "Cannot order by LastEventTime with a logStreamNamePrefix."

OrderByValues == {"", "LogStreamName", "LastEventTime"}

\* a handler that looks at orderBy before it looks at the group name
StreamsErrorOrderFirst(groupName, orderBy, prefix, known) ==
    IF orderBy \notin OrderByValues THEN InvalidOrderBy
    ELSE IF groupName = <<>> THEN MissingGroupName
    ELSE IF ~known THEN GroupNotFound
    ELSE IF orderBy = "LastEventTime" /\ prefix # <<>> THEN PrefixConflict
    ELSE ""

\* a handler that looks the group up before it looks at orderBy
StreamsErrorLookupFirst(groupName, orderBy, prefix, known) ==
    IF groupName = <<>> THEN MissingGroupName
    ELSE IF ~known THEN GroupNotFound
    ELSE IF orderBy \notin OrderByValues THEN InvalidOrderBy
    ELSE IF orderBy = "LastEventTime" /\ prefix # <<>> THEN PrefixConflict
    ELSE ""

\* a refused call that deletes the token it presented
TokensOfRefusedDeleted(toks, token) == [t \in DOMAIN toks \ {token} |-> toks[t]]

\* lines 690-720: the errors of listStreams are thrown before paginate is
\* called, so the token of a refused call is not looked up or deleted
TokensOfRefused(toks, token) == toks

\* lines 690-720: the error describeLogStreams throws before it pages, ""
\* for none; known tells whether this.rawStreams has the key of the group
StreamsError(groupName, orderBy, prefix, known) ==
    IF groupName = <<>> THEN MissingGroupName
    ELSE IF orderBy \notin OrderByValues THEN InvalidOrderBy
    ELSE IF ~known THEN GroupNotFound
    ELSE IF orderBy = "LastEventTime" /\ prefix # <<>> THEN PrefixConflict
    ELSE ""

DescribeLogStreams(profile, region, groupName, orderBy, descending, prefix, nextToken, limit, client) ==
    LET key == StreamsKey(profile, region, groupName)
        call == [Blank EXCEPT !.op = "describeLogStreams", !.profile = profile,
                              !.region = region, !.groupName = groupName,
                              !.orderBy = orderBy, !.descending = descending,
                              !.prefix = prefix, !.token = nextToken,
                              !.limit = limit]
        err == StreamsError(groupName, orderBy, prefix, key \in DOMAIN rawStreams)
        page == Paginate(call,
                         OrderedStreams(rawStreams[key], orderBy, descending, prefix),
                         nextToken, limit)
    IN  IF err # ""
          THEN Finish([call EXCEPT !.err = err], TokensOfRefused(tokens, nextToken),
                      0, client)
        ELSE Finish(page.out, page.tokens, page.minted, client)

-----------------------------------------------------------------------------
(* getLogEvents *)

\* lines 788-796; a time the request does not have is Undefined, and a time
\* of 0 is as falsy as that
FilterEvents(events, startTime, endTime) ==
    LET start == IF Truthy(startTime) THEN startTime ELSE 0
        Keep(e) == /\ Truthy(e.timestamp)
                   /\ start <= e.timestamp
                   /\ (~Truthy(endTime) \/ endTime > e.timestamp)
    IN  IF Truthy(startTime) \/ Truthy(endTime) THEN SelectSeq(events, Keep)
        ELSE events

EventsLimit(limit) == IF limit # 0 THEN limit ELSE DefaultEventsLimit

\* lines 809-818, 829: the page of the filtered list
EventsPage(events, offset, limit) ==
    LET start == Len(events) - limit - offset
        end == Len(events) - offset
    IN  Slice(events, IF start < 0 THEN 0 ELSE start, IF end < 0 THEN 0 ELSE end)

\* a forward token that stays where the page is
ForwardStays(offset, limit) == offset

\* lines 820-823
ForwardOffset(offset, limit) == offset + (-limit)
\* a backward token that steps one event too far
BackwardSkips(offset, limit) == offset + limit + 1

\* lines 824-827
BackwardOffset(offset, limit) == offset + limit

GetLogEvents(profile, region, groupName, streamName, startTime, endTime, nextToken, limit, client) ==
    LET key == EventsKey(profile, region, groupName, streamName)
        call == [Blank EXCEPT !.op = "getLogEvents", !.profile = profile,
                              !.region = region, !.groupName = groupName,
                              !.streamName = streamName, !.startTime = startTime,
                              !.endTime = endTime, !.token = nextToken,
                              !.limit = limit]
        events == FilterEvents(rawEvents[key], startTime, endTime)
        r == Resolve(nextToken)
        kept == IF nextToken = NoToken THEN tokens ELSE DeleteToken(tokens, nextToken)
        lim == EventsLimit(limit)
        nextForwardToken == idCounter + 1
        nextBackwardToken == idCounter + 2
        items == IF r.isNaN THEN <<>> ELSE EventsPage(events, r.offset, lim)
    IN  IF key \notin DOMAIN rawEvents
          THEN Finish(EmptyResult(call), tokens, 0, client)
        ELSE IF r.err # ""
          THEN Finish([call EXCEPT !.err = r.err], kept, 0, client)
        ELSE Finish([call EXCEPT !.items = items,
                                 !.nextForwardToken = nextForwardToken,
                                 !.nextBackwardToken = nextBackwardToken,
                                 !.offset = r.offset, !.offsetIsNaN = r.isNaN,
                                 !.resolved = nextToken \in DOMAIN tokens],
                    Put(Put(kept, nextForwardToken,
                            [offset |-> ForwardOffset(r.offset, lim), isNaN |-> r.isNaN]),
                        nextBackwardToken,
                        [offset |-> BackwardOffset(r.offset, lim), isNaN |-> r.isNaN]),
                    2, client)

-----------------------------------------------------------------------------
(* The clock. *)

NowStart == 12

Tick ==
    /\ now < NowStart + MaxTicks
    /\ now' = now + 1
    /\ UNCHANGED <<rawGroups, rawStreams, rawEvents, tokens, idCounter,
                   ingestionDelay, last, consumed, walk, inflight>>

\* lines 48-75: the constructor; options.ingestionDelay || INGESTION_DELAY
InitWith(delays) ==
    /\ rawGroups = <<>>
    /\ rawStreams = <<>>
    /\ rawEvents = <<>>
    /\ tokens = <<>>
    /\ idCounter = 0
    /\ now = NowStart
    /\ ingestionDelay \in {IF d # 0 THEN d ELSE INGESTION_DELAY : d \in delays}
    /\ last = Blank
    /\ consumed = {}
    /\ walk = Idle
    /\ inflight = [r \in Requests |-> NoRequest]

-----------------------------------------------------------------------------
(* The calls the specifications draw from. *)

Profile == <<"p">>
Region == <<"r">>
GroupG == <<"g">>
GroupH == <<"h">>
StreamA == <<"a">>
StreamB == <<"b">>

\* a token that is never issued
NeverIssued == MaxTokens + 1

\* the tokens a request may carry: none, an inherited name, a registered
\* one, a consumed one, one that was never issued
AnyToken == {NoToken, InheritedToken, NeverIssued} \cup DOMAIN tokens \cup consumed
Limits == 0..MaxLimit

-----------------------------------------------------------------------------
(* The client that follows tokens, as the tests do                          *)
(* ('can fetch uneven pages of log events', 'can fetch two batches of ...'). *)

\* the tokens of the client's last page
Pending == {walk.nextToken, walk.nextForwardToken, walk.nextBackwardToken} \ {NoToken}

\* the client repeats its request with one of the tokens of its last page
ClientFollow ==
    /\ walk.active
    /\ \E token \in Pending :
        LET q == walk.req
        IN  CASE q.op = "describeLogGroups" ->
                   DescribeLogGroups(q.profile, q.region, token, q.limit, Walker)
              [] q.op = "describeLogStreams" ->
                   DescribeLogStreams(q.profile, q.region, q.groupName, q.orderBy,
                                      q.descending, q.prefix, token, q.limit, Walker)
              [] OTHER ->
                   GetLogEvents(q.profile, q.region, q.groupName, q.streamName,
                                q.startTime, q.endTime, token, q.limit, Walker)

-----------------------------------------------------------------------------
(* Spec: the three lists side by side and every kind of token, in one      *)
(* scope with two groups and two streams.                                  *)

\* cuuid() values handed out under Spec
SpecTokens == 3

SpecGroupBatches == {<<GroupG, GroupH, <<"q">>>>}
SpecStreamBatches == {<<MakeLogStream(StreamA), MakeLogStream(StreamB),
                        MakeLogStream(<<"a", "b">>)>>}
SpecEventBatches == {<<MakeLogEvent(2, 5), MakeLogEvent(9, 5), MakeLogEvent(10, 5)>>}

\* a limit matters to a call that gets to its page
LimitsFor(token) == IF token \in DOMAIN tokens \cup {NoToken} THEN {0, 1} ELSE {1}

Init == InitWith({1})

Next ==
    \/ \E newGroups \in SpecGroupBatches :
           PopulateGroups(Profile, Region, newGroups)
    \/ \E newStreams \in SpecStreamBatches :
           PopulateStreams(Profile, Region, GroupG, newStreams)
    \/ \E newEvents \in SpecEventBatches :
           PopulateEvents(Profile, Region, GroupG, StreamA, newEvents)
    \/ \E token \in AnyToken : \E limit \in LimitsFor(token) :
           /\ DescribeLogGroups(Profile, Region, token, limit, Other)
           /\ idCounter' <= SpecTokens
    \/ \E groupName \in {<<>>, GroupG, GroupH}, token \in AnyToken :
         \E limit \in LimitsFor(token) :
           /\ DescribeLogStreams(Profile, Region, groupName, "", FALSE, <<>>,
                                 token, limit, Other)
           /\ idCounter' <= SpecTokens
    \/ \E streamName \in {StreamA, StreamB}, token \in AnyToken :
         \E limit \in LimitsFor(token) :
           /\ GetLogEvents(Profile, Region, GroupG, streamName, 0, 0, token,
                           limit, Other)
           /\ idCounter' <= SpecTokens

Spec == Init /\ [][Next]_vars

-----------------------------------------------------------------------------
(* SpecList: a client pages through groups and streams while others append *)
(* and list.                                                               *)

\* cuuid() values handed out under SpecList
ListTokens == 3

ListGroupBatches == {<<GroupH, GroupG, <<"q">>>>}
ListStreamBatches == {<<MakeLogStream(StreamB), MakeLogStream(<<"a", "b">>),
                        MakeLogStream(StreamA)>>,
                      <<MakeLogStream(StreamA), MakeLogStream(StreamB)>>}
\* orderBy, descending, logStreamNamePrefix
ListOptions == {<<"", FALSE, <<>>>>, <<"LogStreamName", TRUE, <<"a">>>>,
                <<"LastEventTime", TRUE, <<>>>>, <<"LastEventTime", FALSE, <<"a">>>>}

NextList ==
    \/ \E newGroups \in ListGroupBatches :
           PopulateGroups(Profile, Region, newGroups)
    \/ \E newStreams \in ListStreamBatches :
           PopulateStreams(Profile, Region, GroupG, newStreams)
    \/ \E limit \in Limits :
           /\ DescribeLogGroups(Profile, Region, NoToken, limit, Walker)
           /\ idCounter' <= ListTokens
    \/ \E opts \in ListOptions, limit \in Limits :
           /\ DescribeLogStreams(Profile, Region, GroupG, opts[1], opts[2],
                                 opts[3], NoToken, limit, Walker)
           /\ idCounter' <= ListTokens
    \/ ClientFollow /\ idCounter' <= ListTokens
    \/ \E token \in Pending :
           /\ DescribeLogGroups(Profile, Region, token, 1, Other)
           /\ idCounter' <= ListTokens

SpecList == Init /\ [][NextList]_vars

-----------------------------------------------------------------------------
(* SpecWalk: a client pages through the events of one stream, backward and *)
(* forward, while batches arrive.                                          *)

QueryStreams == <<MakeLogStream(StreamB), MakeLogStream(StreamA),
                  MakeLogStream(StreamB)>>
QueryEventBatches == {<<MakeLogEvent(2, 5)>>,
                      <<MakeLogEvent(3, 5), MakeLogEvent(1, 5)>>,
                      <<MakeLogEvent(0, 5)>>}

NextWalk ==
    \/ PopulateStreams(Profile, Region, GroupG, QueryStreams)
    \/ \E newEvents \in QueryEventBatches :
           PopulateEvents(Profile, Region, GroupG, StreamA, newEvents)
    \/ \E limit \in 1..MaxLimit :
           GetLogEvents(Profile, Region, GroupG, StreamA, 0, 0, NoToken, limit, Walker)
    \/ ClientFollow

SpecWalk == Init /\ [][NextWalk]_vars

-----------------------------------------------------------------------------
(* SpecQuery: queries of one stream with every registered token, every    *)
(* limit and a time range, while batches arrive.                           *)

\* cuuid() values handed out under SpecQuery
QueryTokens == 4

QueryTimes == {0, 2}

NextQuery ==
    \/ PopulateStreams(Profile, Region, GroupG, QueryStreams)
    \/ \E newEvents \in QueryEventBatches :
           PopulateEvents(Profile, Region, GroupG, StreamA, newEvents)
    \/ \E token \in AnyToken, limit \in Limits, startTime \in QueryTimes :
           /\ GetLogEvents(Profile, Region, GroupG, StreamA, startTime, 0, token,
                           limit, Other)
           /\ idCounter' <= QueryTokens

SpecQuery == Init /\ [][NextQuery]_vars

-----------------------------------------------------------------------------
(* SpecAppend: batches of events arrive at one stream while the clock runs. *)

AppendEvents == {MakeLogEvent(2, 5), MakeLogEvent(9, 12), MakeLogEvent(10, 12),
                 MakeLogEvent(0, 5), MakeLogEvent(12, 12), MakeLogEvent(9, 5),
                 MakeLogEvent(2, 12)}
AppendEventBatches ==
    {<<e>> : e \in AppendEvents} \cup
    {<<MakeLogEvent(10, 12), MakeLogEvent(9, 12)>>,
     <<MakeLogEvent(9, 12), MakeLogEvent(2, 5)>>,
     <<MakeLogEvent(2, 0)>>}

InitAppend == InitWith({0, 1, 2})

NextAppend ==
    \/ PopulateStreams(Profile, Region, GroupG, QueryStreams)
    \/ \E newEvents \in AppendEventBatches :
           PopulateEvents(Profile, Region, GroupG, StreamA, newEvents)
    \/ Tick
    \/ GetLogEvents(Profile, Region, GroupG, StreamA, 0, 0, NoToken, 0, Other)

SpecAppend == InitAppend /\ [][NextAppend]_vars

-----------------------------------------------------------------------------
(* SpecFrame: lists and queries of every kind and the clock, between the   *)
(* appends that fill one scope.                                            *)

\* cuuid() values handed out under SpecFrame
FrameTokens == 2

\* the second event is ingested at 13 and is two delays old at 14
FrameEventBatches == {<<MakeLogEvent(2, 5)>>, <<MakeLogEvent(10, 13)>>}

NextFrame ==
    \/ \E newGroups \in ListGroupBatches :
           PopulateGroups(Profile, Region, newGroups)
    \/ PopulateStreams(Profile, Region, GroupG, QueryStreams)
    \/ \E newEvents \in FrameEventBatches :
           PopulateEvents(Profile, Region, GroupG, StreamA, newEvents)
    \/ Tick
    \/ \E token \in DOMAIN tokens \cup {NoToken} :
           /\ DescribeLogGroups(Profile, Region, token, 1, Other)
           /\ idCounter' <= FrameTokens
    \/ \E opts \in ListOptions, token \in DOMAIN tokens \cup {NoToken} :
           /\ DescribeLogStreams(Profile, Region, GroupG, opts[1], opts[2],
                                 opts[3], token, 1, Other)
           /\ idCounter' <= FrameTokens
    \/ \E token \in DOMAIN tokens \cup {NoToken} :
           /\ GetLogEvents(Profile, Region, GroupG, StreamA, 0, 0, token, 1, Other)
           /\ idCounter' <= FrameTokens

SpecFrame == InitWith({2}) /\ [][NextFrame]_vars

-----------------------------------------------------------------------------
(* SpecRequests: two HTTP requests that present registered tokens are in   *)
(* flight while others append and list.                                    *)

\* cuuid() values handed out under SpecRequests
RequestTokens == 3

\* lines 539-545: request r arrives with its x-amz-target and its body is
\* being received; the token it presents is registered
SendRequest(r, op, token) ==
    /\ inflight[r].state = "idle"
    /\ token \in DOMAIN tokens
    /\ inflight' =
           [q \in Requests |->
              IF q = r
                THEN [NoRequest EXCEPT !.state = "receiving", !.op = op,
                                       !.token = token,
                                       !.overlap = \E o \in Requests \ {r} :
                                                      inflight[o].state = "receiving"]
              ELSE IF inflight[q].state = "receiving"
                THEN [inflight[q] EXCEPT !.overlap = TRUE]
              ELSE inflight[q]]
    /\ UNCHANGED <<rawGroups, rawStreams, rawEvents, tokens, idCounter, now,
                   ingestionDelay, last, consumed, walk>>

\* lines 546-593: the 'end' event of request r; the handler runs to its end
\* inside the callback
EndRequest(r) ==
    /\ inflight[r].state = "receiving"
    /\ CASE inflight[r].op = "describeLogGroups" ->
               DescribeLogGroups(Profile, Region, inflight[r].token, 1, r)
         [] inflight[r].op = "describeLogStreams" ->
               DescribeLogStreams(Profile, Region, GroupG, "", FALSE, <<>>,
                                  inflight[r].token, 1, r)
         [] inflight[r].op = "getLogEvents" ->
               GetLogEvents(Profile, Region, GroupG, StreamA, 0, 0,
                            inflight[r].token, 1, r)

NextRequests ==
    \/ \E newGroups \in SpecGroupBatches :
           PopulateGroups(Profile, Region, newGroups)
    \/ PopulateStreams(Profile, Region, GroupG, QueryStreams)
    \/ \E newEvents \in SpecEventBatches :
           PopulateEvents(Profile, Region, GroupG, StreamA, newEvents)
    \/ /\ DescribeLogGroups(Profile, Region, NoToken, 1, Other)
       /\ idCounter' <= RequestTokens
    \/ /\ GetLogEvents(Profile, Region, GroupG, StreamA, 0, 0, NoToken, 1, Other)
       /\ idCounter' <= RequestTokens
    \/ \E r \in Requests, op \in {"describeLogGroups", "describeLogStreams",
                                    "getLogEvents"}, token \in DOMAIN tokens :
           SendRequest(r, op, token)
    \/ \E r \in Requests : EndRequest(r) /\ idCounter' <= RequestTokens

SpecRequests == Init /\ [][NextRequests]_vars

-----------------------------------------------------------------------------
(* SpecErrors: listStreams is called with every combination of group      *)
(* name, orderBy and prefix, with and without token, while groups and     *)
(* stream lists arrive.                                                    *)

\* cuuid() values handed out under SpecErrors
ErrorTokens == 2

\* an empty stream list and three streams
ErrorStreamBatches ==
    {<<>>,
     <<MakeLogStream(StreamB), MakeLogStream(<<"a", "b">>), MakeLogStream(StreamA)>>}

OrderByInputs == {"", "LogStreamName", "LastEventTime", "Size"}

NextErrors ==
    \/ \E newGroups \in SpecGroupBatches :
           PopulateGroups(Profile, Region, newGroups)
    \/ \E newStreams \in ErrorStreamBatches :
           PopulateStreams(Profile, Region, GroupG, newStreams)
    \/ \E newEvents \in SpecEventBatches :
           PopulateEvents(Profile, Region, GroupH, StreamA, newEvents)
    \/ \E groupName \in {<<>>, GroupG, GroupH}, orderBy \in OrderByInputs,
          prefix \in {<<>>, <<"a">>}, token \in DOMAIN tokens \cup {NoToken} :
           /\ DescribeLogStreams(Profile, Region, groupName, orderBy, FALSE,
                                 prefix, token, 1, Other)
           /\ idCounter' <= ErrorTokens

SpecErrors == Init /\ [][NextErrors]_vars

-----------------------------------------------------------------------------
(* SpecOrder: the streams of one group are listed in every order, with and *)
(* without prefix, while streams and events arrive.                        *)

\* cuuid() values handed out under SpecOrder
OrderTokens == 2

\* a stream without a name behind a named one, three streams out of name
\* order
OrderStreamBatches ==
    {<<MakeLogStream(StreamA), MakeLogStream(<<>>)>>,
     <<MakeLogStream(StreamB), MakeLogStream(<<"a", "b">>), MakeLogStream(StreamA)>>}

\* a batch that ends at timestamp 2 and one that ends at timestamp 10
EarlyEvents == <<MakeLogEvent(1, 5), MakeLogEvent(2, 5), MakeLogEvent(2, 5)>>
LateEvents == <<MakeLogEvent(2, 5), MakeLogEvent(9, 5), MakeLogEvent(10, 5)>>

NextOrder ==
    \/ \E newStreams \in OrderStreamBatches :
           PopulateStreams(Profile, Region, GroupG, newStreams)
    \/ \E newEvents \in {EarlyEvents, LateEvents} :
           PopulateEvents(Profile, Region, GroupG, StreamA, newEvents)
    \/ PopulateEvents(Profile, Region, GroupG, StreamB, LateEvents)
    \/ \E orderBy \in OrderByValues, descending \in BOOLEAN,
          prefix \in {<<>>, <<"a">>}, limit \in {0, 1} :
           /\ DescribeLogStreams(Profile, Region, GroupG, orderBy, descending,
                                 prefix, NoToken, limit, Other)
           /\ idCounter' <= OrderTokens
    \/ \E orderBy \in OrderByValues, descending \in BOOLEAN,
          prefix \in {<<>>, <<"a">>}, token \in DOMAIN tokens :
           /\ DescribeLogStreams(Profile, Region, GroupG, orderBy, descending,
                                 prefix, token, 1, Other)
           /\ idCounter' <= OrderTokens

SpecOrder == Init /\ [][NextOrder]_vars

-----------------------------------------------------------------------------
(* SpecRange: the events of one stream are queried with and without        *)
(* startTime and endTime, 0 included, page by page.                         *)

\* cuuid() values handed out under SpecRange
RangeTokens == 6

RangeEventBatches == {<<MakeLogEvent(2, 5), MakeLogEvent(9, 5), MakeLogEvent(10, 5)>>,
                      <<MakeLogEvent(0, 5)>>}
StartTimes == {Undefined, 0, 9}
EndTimes == {Undefined, 0, 10}

NextRange ==
    \/ PopulateStreams(Profile, Region, GroupG, QueryStreams)
    \/ \E newEvents \in RangeEventBatches :
           PopulateEvents(Profile, Region, GroupG, StreamA, newEvents)
    \/ \E startTime \in StartTimes, endTime \in EndTimes,
          token \in DOMAIN tokens \cup {NoToken} :
           /\ GetLogEvents(Profile, Region, GroupG, StreamA, startTime, endTime,
                           token, 1, Other)
           /\ idCounter' <= RangeTokens

SpecRange == Init /\ [][NextRange]_vars

-----------------------------------------------------------------------------
(* SpecScopes: groups, streams and events arrive in two regions, under     *)
(* group and stream names with and without "::", and are listed and        *)
(* queried.                                                                *)

\* cuuid() values handed out under SpecScopes
ScopeTokens == 2

RegionS == <<"s">>
GroupGA == <<"g", ":", ":", "a">>
StreamAB == <<"a", ":", ":", "b">>

Regions == {Region, RegionS}
GroupNames == {GroupG, GroupGA}
StreamNames == {StreamB, StreamAB}

ScopeGroupBatch == <<GroupG, GroupGA, GroupH>>
ScopeStreamBatch ==
    <<MakeLogStream(StreamB), MakeLogStream(StreamAB), MakeLogStream(StreamA)>>
ScopeEventBatch == <<MakeLogEvent(2, 5), MakeLogEvent(9, 5), MakeLogEvent(10, 5)>>

\* the groups and the streams the calls address: all of one region, and one
\* of the other
ScopedGroups == {<<Region, GroupG>>, <<Region, GroupGA>>, <<RegionS, GroupG>>}
ScopedStreams ==
    {<<Region, GroupG, StreamB>>, <<Region, GroupG, StreamAB>>,
     <<Region, GroupGA, StreamB>>, <<RegionS, GroupG, StreamB>>}

NextScopes ==
    \/ \E region \in Regions : PopulateGroups(Profile, region, ScopeGroupBatch)
    \/ \E g \in ScopedGroups :
           PopulateStreams(Profile, g[1], g[2], ScopeStreamBatch)
    \/ \E e \in ScopedStreams :
           PopulateEvents(Profile, e[1], e[2], e[3], ScopeEventBatch)
    \/ \E region \in Regions :
           DescribeLogGroups(Profile, region, NoToken, 0, Other)
    \/ \E g \in ScopedGroups :
           DescribeLogStreams(Profile, g[1], g[2], "", FALSE, <<>>, NoToken, 0, Other)
    \/ \E e \in ScopedStreams :
           /\ GetLogEvents(Profile, e[1], e[2], e[3], Undefined, Undefined,
                           NoToken, 0, Other)
           /\ idCounter' <= ScopeTokens

SpecScopes == Init /\ [][NextScopes]_vars

-----------------------------------------------------------------------------
(* SpecBatches: well-formed and malformed batches of events arrive at one  *)
(* stream while the clock runs.                                            *)

\* events without a timestamp, without a message and without ingestionTime
NoTimestamp == MakeLogEvent(Undefined, 5)
NoMessage == [MakeLogEvent(9, 5) EXCEPT !.message = ""]
NoIngestionTime == MakeLogEvent(9, Undefined)

BatchInputs ==
    {<<>>, <<NoTimestamp>>, <<NoMessage>>, <<NoIngestionTime>>,
     <<MakeLogEvent(2, 5), NoTimestamp>>, <<MakeLogEvent(2, 5), NoMessage>>,
     <<MakeLogEvent(2, 5), NoIngestionTime>>,
     <<MakeLogEvent(2, 5)>>, <<MakeLogEvent(9, 5)>>, <<MakeLogEvent(10, 12)>>}

NextBatches ==
    \/ PopulateStreams(Profile, Region, GroupG, QueryStreams)
    \/ \E newEvents \in BatchInputs :
           PopulateEvents(Profile, Region, GroupG, StreamA, newEvents)
    \/ Tick

SpecBatches == Init /\ [][NextBatches]_vars

-----------------------------------------------------------------------------
(* SpecInterleave: a client pages once through the events of one stream    *)
(* while batches arrive between its pages. The events stored before its    *)
(* first page have ingestionTime 5, the events that arrive later 12.       *)

\* cuuid() values handed out under SpecInterleave
InterleaveTokens == 10

EarlyBatches == {<<MakeLogEvent(2, 5), MakeLogEvent(9, 5)>>}
LateBatches == {<<MakeLogEvent(10, 12)>>, <<MakeLogEvent(2, 12)>>,
                <<MakeLogEvent(1, 12)>>}

NextInterleave ==
    \/ PopulateStreams(Profile, Region, GroupG, QueryStreams)
    \/ /\ ~walk.active
       /\ \E newEvents \in EarlyBatches :
              PopulateEvents(Profile, Region, GroupG, StreamA, newEvents)
    \/ /\ walk.active
       /\ \E newEvents \in LateBatches :
              PopulateEvents(Profile, Region, GroupG, StreamA, newEvents)
    \/ /\ ~walk.active
       /\ GetLogEvents(Profile, Region, GroupG, StreamA, 0, 0, NoToken, 1, Walker)
    \/ ClientFollow /\ idCounter' <= InterleaveTokens

SpecInterleave == Init /\ [][NextInterleave]_vars

-----------------------------------------------------------------------------
(* SpecMeta: batches arrive at two streams of one group while the clock    *)
(* runs; among them events from before the epoch and an event of           *)
(* timestamp 0.                                                            *)

MetaEventBatches ==
    {<<MakeLogEvent(2, 5)>>, <<MakeLogEvent(9, 12)>>,
     <<MakeLogEvent(10, 12), MakeLogEvent(9, 12)>>,
     <<MakeLogEvent(-2, 5)>>, <<MakeLogEvent(-3, 5), MakeLogEvent(2, 5)>>,
     <<MakeLogEvent(0, 5)>>}

NextMeta ==
    \/ PopulateStreams(Profile, Region, GroupG, QueryStreams)
    \/ \E newEvents \in MetaEventBatches :
           PopulateEvents(Profile, Region, GroupG, StreamA, newEvents)
    \/ PopulateEvents(Profile, Region, GroupG, StreamB, <<MakeLogEvent(9, 12)>>)
    \/ Tick

SpecMeta == Init /\ [][NextMeta]_vars

-----------------------------------------------------------------------------
(* SpecGroups: the groups of a scope arrive in two appends and are listed  *)
(* with every limit and every registered token, tokens of event pages     *)
(* included.                                                               *)

\* cuuid() values handed out under SpecGroups
GroupsTokens == 3

\* the two appends, in either order
GroupBatches == {<<GroupH>>, <<GroupG, <<"q">>>>}

NextGroups ==
    \/ \E newGroups \in GroupBatches :
           PopulateGroups(Profile, Region, newGroups)
    \/ PopulateStreams(Profile, Region, GroupG, QueryStreams)
    \/ \E newEvents \in SpecEventBatches :
           PopulateEvents(Profile, Region, GroupG, StreamA, newEvents)
    \/ /\ GetLogEvents(Profile, Region, GroupG, StreamA, 0, 0, NoToken, 1, Other)
       /\ idCounter' <= GroupsTokens
    \/ \E token \in DOMAIN tokens \cup {NoToken}, limit \in Limits :
           /\ DescribeLogGroups(Profile, Region, token, limit, Other)
           /\ idCounter' <= GroupsTokens

SpecGroups == Init /\ [][NextGroups]_vars

-----------------------------------------------------------------------------
(* SpecTerminate: a client lists groups or streams or queries events, and  *)
(* repeats its request with nextToken or nextBackwardToken until the list  *)
(* is at its end; the store changes between its walks only.                *)

\* cuuid() values that may be handed out before a walk starts
TerminateTokens == 4

\* the list of the client is at its end: a list call returned no nextToken,
\* a query returned an empty page
WalkEnded ==
    IF walk.req.op = "getLogEvents" THEN walk.pages[Len(walk.pages)] = <<>>
    ELSE walk.nextToken = NoToken

Walking == walk.active /\ ~WalkEnded

\* the client repeats its request with nextToken or nextBackwardToken
FollowOn ==
    /\ Walking
    /\ LET q == walk.req
       IN  CASE q.op = "describeLogGroups" ->
                  DescribeLogGroups(q.profile, q.region, walk.nextToken, q.limit,
                                    Walker)
             [] q.op = "describeLogStreams" ->
                  DescribeLogStreams(q.profile, q.region, q.groupName, q.orderBy,
                                     q.descending, q.prefix, walk.nextToken,
                                     q.limit, Walker)
             [] OTHER ->
                  GetLogEvents(q.profile, q.region, q.groupName, q.streamName,
                               q.startTime, q.endTime, walk.nextBackwardToken,
                               q.limit, Walker)

NextTerminate ==
    \/ /\ ~Walking
       /\ \E newGroups \in GroupBatches : PopulateGroups(Profile, Region, newGroups)
    \/ /\ ~Walking
       /\ \E newStreams \in ErrorStreamBatches :
              PopulateStreams(Profile, Region, GroupG, newStreams)
    \/ /\ ~Walking
       /\ \E newEvents \in QueryEventBatches :
              PopulateEvents(Profile, Region, GroupG, StreamA, newEvents)
    \/ /\ ~Walking
       /\ idCounter <= TerminateTokens
       /\ \E limit \in 1..MaxLimit :
              \/ DescribeLogGroups(Profile, Region, NoToken, limit, Walker)
              \/ DescribeLogStreams(Profile, Region, GroupG, "", FALSE, <<>>,
                                    NoToken, limit, Walker)
              \/ GetLogEvents(Profile, Region, GroupG, StreamA, 0, 0, NoToken,
                              limit, Walker)
    \/ FollowOn

\* The client goes on as long as its list is not at its end: weak fairness
\* of FollowOn, which is enabled exactly while the client is walking.
FairFollow == []<>(~Walking) \/ []<><<FollowOn>>_vars

SpecTerminate == Init /\ [][NextTerminate]_vars /\ FairFollow

-----------------------------------------------------------------------------
(* Claims about tokens, checked under Spec. *)

Reads == {"describeLogGroups", "describeLogStreams", "getLogEvents"}

\* the step is a listGroups, listStreams or queryEvents call
ReadStep == last' # last /\ last'.op \in Reads

\* C1 as the specification states it: every later call that presents a
\* consumed token fails with the invalid-token error.
C1_EveryCallFails ==
    [][(ReadStep /\ last'.token \in consumed) => last'.err = InvalidToken]_vars

\* C1, amended: a consumed token is never registered again, and every later
\* call that presents it and gets as far as looking its token up fails with
\* the invalid-token error.
C1_SingleUse ==
    [][/\ consumed' \cap DOMAIN tokens' = {}
       /\ (ReadStep /\ last'.token \in consumed /\ ReachesToken(last'))
              => (last'.err = InvalidToken /\ tokens' = tokens)]_vars

\* a consumed token was presented again, to a call of another operation
\* than the one that issued it, and was refused
C1_Witness ==
    /\ last.op = "getLogEvents"
    /\ last.token \in consumed
    /\ ReachesToken(last)
    /\ last.err = InvalidToken

-----------------------------------------------------------------------------
(* Claims about the pages of a client, checked under SpecList and SpecWalk. *)

RECURSIVE Concat(_)
Concat(pages) ==
    IF pages = <<>> THEN <<>> ELSE Head(pages) \o Concat(Tail(pages))

\* the list the client's request pages through
WalkList ==
    LET q == walk.req
    IN  CASE q.op = "describeLogGroups" ->
               GetOr(rawGroups, ScopeKey(q.profile, q.region))
          [] q.op = "describeLogStreams" ->
               OrderedStreams(GetOr(rawStreams,
                                    StreamsKey(q.profile, q.region, q.groupName)),
                              q.orderBy, q.descending, q.prefix)
          [] OTHER ->
               FilterEvents(GetOr(rawEvents,
                                  EventsKey(q.profile, q.region, q.groupName,
                                            q.streamName)),
                            q.startTime, q.endTime)

\* the client has followed nextToken until none was returned
ListWalkDone ==
    /\ walk.active
    /\ walk.req.op \in {"describeLogGroups", "describeLogStreams"}
    /\ walk.req.limit > 0
    /\ walk.nextToken = NoToken

\* C3: the pages of a listGroups or listStreams walk with a fixed positive
\* limit and fixed options, followed until no nextToken is returned and with
\* no append in between, concatenate to exactly the full ordered and
\* filtered list.
C3_ListCoverage == ListWalkDone => Concat(walk.pages) = WalkList

\* a listStreams walk of three pages has ended
C3_Witness ==
    /\ ListWalkDone
    /\ walk.req.op = "describeLogStreams"
    /\ Len(walk.pages) = 3
    /\ Len(WalkList) = 3

\* the number of whole and partial pages in n items
CeilDiv(n, l) == (n + l - 1) \div l

\* the client has followed nextBackwardToken until its first empty page
BackwardWalkDone ==
    /\ walk.active
    /\ walk.req.op = "getLogEvents"
    /\ walk.req.limit > 0
    /\ ~walk.appended
    /\ \A i \in DOMAIN walk.dirs : walk.dirs[i] = "b"
    /\ walk.pages[Len(walk.pages)] = <<>>
    /\ \A i \in 1..(Len(walk.pages) - 1) : walk.pages[i] # <<>>

\* non-decreasing order of timestamp
Ascending(events) ==
    \A i \in 1..(Len(events) - 1) : events[i].timestamp <= events[i + 1].timestamp

\* the backward pages of the n stored events with limit L: ceil(n/L)
\* non-empty pages, each of L events but the oldest, which has the
\* remainder, and from last to first they concatenate to the stored list
BackwardPagesCover ==
    LET n == Len(WalkList)
        l == walk.req.limit
        k == Len(walk.pages) - 1
        full == SubSeq(walk.pages, 1, k)
    IN  /\ k = CeilDiv(n, l)
        /\ \A i \in 1..(k - 1) : Len(full[i]) = l
        /\ k > 0 => Len(full[k]) = n - (k - 1) * l
        /\ Concat(Reverse(full)) = WalkList

\* the part of C4 that is about the pages alone
C4_PagesCover == BackwardWalkDone => BackwardPagesCover

\* C4: backward pages of n stored events with limit L, followed until an
\* empty page with no append in between: ceil(n/L) non-empty pages, each of
\* L events but the oldest, which has the remainder, and from last to first
\* they concatenate to the stored list, which is in ascending order of
\* timestamp.
C4_BackwardCoverage ==
    BackwardWalkDone =>
        /\ BackwardPagesCover
        /\ Ascending(Concat(Reverse(SubSeq(walk.pages, 1, Len(walk.pages) - 1))))

\* three events were paged backward in pages of two and one
C4_Witness ==
    /\ BackwardWalkDone
    /\ Len(WalkList) = 3
    /\ walk.req.limit = 2
    /\ Len(walk.pages) = 3
    /\ Len(walk.pages[2]) = 1

\* C7: with a fixed limit and no append in between, a backward step followed
\* by a forward step, or a forward step followed by a backward step, returns
\* the events of the page it started from.
C7_RoundTrip ==
    (walk.active /\ walk.req.op = "getLogEvents" /\ ~walk.appended) =>
        \A i \in 1..(Len(walk.dirs) - 1) :
            walk.dirs[i] # walk.dirs[i + 1] => walk.pages[i + 2] = walk.pages[i]

\* a page was left backward and found again forward, and the page in
\* between differs from it
C7_Witness ==
    /\ walk.active /\ walk.req.op = "getLogEvents" /\ ~walk.appended
    /\ Len(walk.dirs) >= 2
    /\ walk.dirs[1] = "b" /\ walk.dirs[2] = "f"
    /\ walk.pages[1] # <<>>
    /\ walk.pages[2] # walk.pages[1]
    /\ walk.pages[3] = walk.pages[1]

\* the same, forward first
C7_WitnessForward ==
    /\ walk.active /\ walk.req.op = "getLogEvents" /\ ~walk.appended
    /\ Len(walk.dirs) >= 2
    /\ walk.dirs[1] = "f" /\ walk.dirs[2] = "b"
    /\ walk.pages[1] # <<>>
    /\ walk.pages[2] = <<>>
    /\ walk.pages[3] = walk.pages[1]

-----------------------------------------------------------------------------
(* Claims about one query, checked under SpecQuery. *)

\* the last call is a queryEvents call that returned without error
QueryReturned == last.op = "getLogEvents" /\ last.err = ""

\* the filtered list the last query paged over
QueryList ==
    FilterEvents(GetOr(rawEvents, EventsKey(last.profile, last.region,
                                            last.groupName, last.streamName)),
                 last.startTime, last.endTime)

Clamp(x, n) == IF x < 0 THEN 0 ELSE IF x > n THEN n ELSE x

\* events[start:end] with start = n - L - o and end = n - o clamped to [0, n]
TailWindow ==
    LET n == Len(QueryList)
        l == IF last.limit = 0 THEN 10000 ELSE last.limit
        start == Clamp(n - l - last.offset, n)
        end == Clamp(n - last.offset, n)
    IN  /\ last.items = SubSeq(QueryList, start + 1, end)
        /\ last.token = NoToken =>
               /\ Len(last.items) = Min(l, n)
               /\ last.items = SubSeq(QueryList, n - Min(l, n) + 1, n)

\* the part of C5 that is about the window alone
C5_WindowOnly == (QueryReturned /\ ~last.offsetIsNaN) => TailWindow

\* C5: a query whose filtered list has length n, with resolved offset o and
\* limit L (default 10000), returns events[start:end], start = n - L - o and
\* end = n - o clamped to [0, n], in ascending order of timestamp; without a
\* token that is the min(L, n) most recent events.
C5_TailWindow ==
    (QueryReturned /\ ~last.offsetIsNaN) => (TailWindow /\ Ascending(last.items))

\* a query with a token returned a window of two events short of the tail
C5_Witness ==
    /\ QueryReturned /\ ~last.offsetIsNaN
    /\ last.token # NoToken
    /\ last.offset = 1
    /\ Len(QueryList) = 3
    /\ Len(last.items) = 2

\* both tokens of the last query are returned and registered, at
\* offset - limit and offset + limit
TokensMinted ==
    LET l == IF last.limit = 0 THEN 10000 ELSE last.limit
    IN  /\ last.nextForwardToken # NoToken
        /\ last.nextBackwardToken # NoToken
        /\ last.nextForwardToken # last.nextBackwardToken
        /\ last.nextForwardToken \in DOMAIN tokens
        /\ last.nextBackwardToken \in DOMAIN tokens
        /\ tokens[last.nextForwardToken] =
               [offset |-> last.offset - l, isNaN |-> last.offsetIsNaN]
        /\ tokens[last.nextBackwardToken] =
               [offset |-> last.offset + l, isNaN |-> last.offsetIsNaN]

\* C6 as the specification states it: every query that returns without
\* error, for a known or an unknown stream, returns two tokens, registered
\* at offset - limit and offset + limit.
C6_AlwaysTwoTokens == QueryReturned => TokensMinted

\* C6, amended: every query that returns without error for a key under which
\* events are stored returns two tokens, registered at offset - limit and
\* offset + limit, whether or not its page is empty; a query for a key
\* without stored events returns no token and registers none.
C6_TwoTokens ==
    QueryReturned =>
        IF EventsKey(last.profile, last.region, last.groupName, last.streamName)
               \in DOMAIN rawEvents
          THEN TokensMinted
        ELSE /\ last.nextForwardToken = NoToken
             /\ last.nextBackwardToken = NoToken
             /\ last.items = <<>>

\* a query past the oldest event returned an empty page and two tokens
C6_Witness ==
    /\ QueryReturned
    /\ last.token # NoToken
    /\ last.offset >= Len(QueryList)
    /\ Len(QueryList) > 0
    /\ last.items = <<>>
    /\ TokensMinted

-----------------------------------------------------------------------------
(* Claims about appends, checked under SpecAppend. *)

\* C8: after any sequence of appendEvents calls, successful or failing, every
\* stored event list is in non-decreasing order of timestamp.
C8_StoredAscending == \A key \in DOMAIN rawEvents : Ascending(rawEvents[key])

\* the step is an appendEvents call
AppendStep ==
    last'.op = "populateEvents" /\ (last' # last \/ rawEvents' # rawEvents)

\* C9: once firstEventTimestamp of a stream is set, no step changes it.
C9_FirstImmutable ==
    [][\A key \in DOMAIN rawStreams : \A i \in 1..Len(rawStreams[key]) :
           Truthy(rawStreams[key][i].firstEventTimestamp) =>
               /\ key \in DOMAIN rawStreams'
               /\ i <= Len(rawStreams'[key])
               /\ rawStreams'[key][i].firstEventTimestamp
                      = rawStreams[key][i].firstEventTimestamp]_vars

\* the stream the last appendEvents call addressed
LastStream ==
    LET streams == GetOr(rawStreams, StreamsKey(last.profile, last.region,
                                                last.groupName))
    IN  streams[FindStream(streams, last.streamName)]

\* the last call is an appendEvents call to a listed stream
AppendedToStream ==
    /\ last.op = "populateEvents"
    /\ FindStream(GetOr(rawStreams, StreamsKey(last.profile, last.region,
                                               last.groupName)),
                  last.streamName) # 0

\* the minimum timestamp of a non-empty batch
BatchMin(batch) ==
    CHOOSE t \in {batch[i].timestamp : i \in 1..Len(batch)} :
        \A i \in 1..Len(batch) : t <= batch[i].timestamp

\* an append of later events succeeded and firstEventTimestamp stayed
C9_Witness ==
    /\ AppendedToStream
    /\ last.err = ""
    /\ Truthy(LastStream.firstEventTimestamp)
    /\ BatchMin(last.batch) > LastStream.firstEventTimestamp
    /\ LastStream.lastEventTimestamp > LastStream.firstEventTimestamp

\* the stream an appendEvents step addresses, before the step
StepStream ==
    LET streams == GetOr(rawStreams, StreamsKey(last'.profile, last'.region,
                                                last'.groupName))
    IN  streams[FindStream(streams, last'.streamName)]

\* an appendEvents step with a well-formed batch to a listed stream whose
\* firstEventTimestamp is set
LaterBatchStep ==
    /\ AppendStep
    /\ BatchError(last'.batch) = ""
    /\ FindStream(GetOr(rawStreams, StreamsKey(last'.profile, last'.region,
                                               last'.groupName)),
                  last'.streamName) # 0
    /\ Truthy(StepStream.firstEventTimestamp)

\* the events stored for the stream of the step, after the step
StepStored ==
    rawEvents'[EventsKey(last'.profile, last'.region, last'.groupName,
                         last'.streamName)]

\* C10 as the specification states it: every later batch whose own minimum
\* timestamp differs from firstEventTimestamp, lower or higher, fails with
\* the consistency error.
C10_EveryOtherMinFails ==
    [][(LaterBatchStep /\ BatchMin(last'.batch) # StepStream.firstEventTimestamp)
          => last'.err = ConsistencyError]_vars

\* C10, amended: a later batch fails with the consistency error exactly when
\* no stored event has timestamp 0 or ingestionTime 0 and the minimum
\* timestamp over all events stored for the stream, the batch and the
\* batches refused before it included, differs from firstEventTimestamp; a
\* batch whose own minimum is lower always fails, one whose minimum is
\* higher is accepted when the stored minimum is still firstEventTimestamp.
C10_StoredMinDiffers ==
    [][LaterBatchStep =>
          LET t == StepStream.firstEventTimestamp
              zero == \E i \in 1..Len(StepStored) :
                          StepStored[i].timestamp = 0 \/ StepStored[i].ingestionTime = 0
          IN  /\ last'.err = ConsistencyError
                    <=> (~zero /\ BatchMin(StepStored) # t)
              /\ zero => last'.err \in {"valid timestamp", "valid ingestionTime"}
              /\ BatchMin(last'.batch) < t => last'.err # ""
              /\ (~zero /\ BatchMin(last'.batch) > t /\ BatchMin(StepStored) = t)
                    => last'.err = ""]_vars

\* a batch of older events was refused with the consistency error
C10_Witness ==
    /\ AppendedToStream
    /\ last.err = ConsistencyError
    /\ Truthy(LastStream.firstEventTimestamp)
    /\ BatchMin(last.batch) < LastStream.firstEventTimestamp

\* a batch of later events was accepted
C10_WitnessHigher ==
    /\ AppendedToStream
    /\ last.err = ""
    /\ Truthy(LastStream.firstEventTimestamp)
    /\ BatchMin(last.batch) > LastStream.firstEventTimestamp
    /\ Len(last.batch) = 2

-----------------------------------------------------------------------------
(* Claims about what an append leaves behind, checked under SpecAppend. *)

\* the stream an appendEvents step addresses, after the step
StepStreamAfter ==
    LET streams == GetOr(rawStreams', StreamsKey(last'.profile, last'.region,
                                                 last'.groupName))
    IN  streams[FindStream(streams, last'.streamName)]

\* an appendEvents step to a listed stream
ListedStep ==
    /\ AppendStep
    /\ FindStream(GetOr(rawStreams, StreamsKey(last'.profile, last'.region,
                                               last'.groupName)),
                  last'.streamName) # 0

\* the events stored for the stream of the step, before the step
StepStoredBefore ==
    GetOr(rawEvents, EventsKey(last'.profile, last'.region, last'.groupName,
                               last'.streamName))

\* C11: an appendEvents that fails with the consistency error leaves the
\* stored event list and the stream metadata as they were.
C11_RejectedNotStored ==
    [][(AppendStep /\ last'.err = ConsistencyError)
          => (rawEvents' = rawEvents /\ rawStreams' = rawStreams)]_vars

\* C12: once lastEventTimestamp of a stream is set, no step lowers it.
C12_HighWaterMark ==
    [][\A key \in DOMAIN rawStreams : \A i \in 1..Len(rawStreams[key]) :
           Truthy(rawStreams[key][i].lastEventTimestamp) =>
               rawStreams'[key][i].lastEventTimestamp
                   >= rawStreams[key][i].lastEventTimestamp]_vars

\* the largest timestamp of a non-empty batch
BatchMax(batch) ==
    CHOOSE t \in {batch[i].timestamp : i \in 1..Len(batch)} :
        \A i \in 1..Len(batch) : t >= batch[i].timestamp

\* the events stored for the stream the last appendEvents call addressed
LastStored ==
    GetOr(rawEvents, EventsKey(last.profile, last.region, last.groupName,
                               last.streamName))

\* lastEventTimestamp stands above firstEventTimestamp and below the
\* youngest stored event, after an append of still younger events
C12_Witness ==
    /\ AppendedToStream
    /\ last.err = ""
    /\ LastStream.lastEventTimestamp > LastStream.firstEventTimestamp
    /\ LastStream.lastEventTimestamp < BatchMax(LastStored)
    /\ BatchMin(last.batch) > LastStream.lastEventTimestamp

\* the bootstrap of a stream under whose key nothing was stored before
C13_BootstrapOfEmptyKey ==
    [][(ListedStep /\ last'.err = "" /\ StepStoredBefore = <<>>)
          => /\ StepStreamAfter.lastEventTimestamp = BatchMax(last'.batch)
             /\ StepStreamAfter.firstEventTimestamp = BatchMin(last'.batch)]_vars

\* C13: the first successful appendEvents on a stream whose
\* lastEventTimestamp is unset sets lastEventTimestamp to the largest
\* timestamp of the batch and firstEventTimestamp to the smallest, whatever
\* now and ingestionDelay are.
C13_Bootstrap ==
    [][(ListedStep /\ last'.err = "" /\ ~Truthy(StepStream.lastEventTimestamp))
          => /\ StepStreamAfter.lastEventTimestamp = BatchMax(last'.batch)
             /\ StepStreamAfter.firstEventTimestamp = BatchMin(last'.batch)]_vars

\* the batch of the step holds an event with timestamp now - 2D, not below
\* firstEventTimestamp, and ingestionTime now
HasEventTwoDelaysOld ==
    \E i \in 1..Len(last'.batch) :
        /\ last'.batch[i].timestamp = now - 2 * ingestionDelay
        /\ last'.batch[i].ingestionTime = now
        /\ last'.batch[i].timestamp >= StepStream.firstEventTimestamp

\* C14: an appendEvents at time now to a stream whose lastEventTimestamp is
\* set, with an event of timestamp now - 2D and ingestionTime now in the
\* batch, leaves lastEventTimestamp at now - 2D or above.
C14_DelayedAdvance ==
    [][(ListedStep /\ last'.err = "" /\ Truthy(StepStream.lastEventTimestamp)
            /\ HasEventTwoDelaysOld)
          => StepStreamAfter.lastEventTimestamp >= now - 2 * ingestionDelay]_vars

\* an event two delays old was appended alone and lastEventTimestamp is its
\* timestamp
C14_Witness ==
    /\ AppendedToStream
    /\ last.err = ""
    /\ Len(last.batch) = 1
    /\ last.batch[1].timestamp = last.at - 2 * ingestionDelay
    /\ last.batch[1].ingestionTime = last.at
    /\ LastStream.firstEventTimestamp < last.batch[1].timestamp
    /\ LastStream.lastEventTimestamp = last.batch[1].timestamp

\* what an append may set lastEventTimestamp of an initialised stream to: a
\* stored timestamp above the old value, below now - D and below the new
\* lastIngestionTime - D
AdvanceIsDelayed ==
    (ListedStep /\ Truthy(StepStream.lastEventTimestamp)
        /\ StepStreamAfter.lastEventTimestamp # StepStream.lastEventTimestamp)
      => /\ StepStreamAfter.lastEventTimestamp < now - ingestionDelay
         /\ StepStreamAfter.lastEventTimestamp
                < StepStreamAfter.lastIngestionTime - ingestionDelay
         /\ StepStreamAfter.lastEventTimestamp > StepStream.lastEventTimestamp
         /\ \E i \in 1..Len(StepStored) :
                StepStored[i].timestamp = StepStreamAfter.lastEventTimestamp

\* every event of the batch of the step has timestamp now
OnlyEventsOfNow == \A i \in 1..Len(last'.batch) : last'.batch[i].timestamp = now

\* C15 as the specification states it: an append to an initialised stream
\* never sets lastEventTimestamp to t >= now - D or t >= lastIngestionTime - D,
\* and an append of events with timestamp now only leaves it unchanged.
C15_NowLeavesUnchanged ==
    [][/\ AdvanceIsDelayed
       /\ (ListedStep /\ Truthy(StepStream.lastEventTimestamp) /\ OnlyEventsOfNow)
             => StepStreamAfter.lastEventTimestamp
                    = StepStream.lastEventTimestamp]_vars

\* C15, amended: an append to an initialised stream sets lastEventTimestamp
\* only to a stored timestamp above the old value, below now - D and below
\* lastIngestionTime - D as the call leaves it, so never to the timestamp of
\* an event of now; an append of events with timestamp now only leaves it
\* unchanged unless an event stored before qualifies.
C15_RecentNotVisible ==
    [][/\ AdvanceIsDelayed
       /\ (ListedStep /\ Truthy(StepStream.lastEventTimestamp) /\ OnlyEventsOfNow)
             => ((\A i \in 1..Len(StepStoredBefore) :
                     ~Visible(StepStoredBefore[i].timestamp, now, ingestionDelay,
                              StepStreamAfter.lastIngestionTime,
                              StepStream.lastEventTimestamp))
                   => StepStreamAfter.lastEventTimestamp
                          = StepStream.lastEventTimestamp)]_vars

\* an event of now was appended alone to an initialised stream and
\* lastEventTimestamp is below it
C15_Witness ==
    /\ AppendedToStream
    /\ last.err = ""
    /\ Len(last.batch) = 1
    /\ last.batch[1].timestamp = last.at
    /\ Len(LastStored) > 1
    /\ LastStream.lastEventTimestamp < last.at - ingestionDelay

\* C17: after every appendEvents call on a listed stream, successful or
\* failing, lastIngestionTime of the stream is the largest ingestionTime of
\* the events stored for it.
C17_NoTornState ==
    (AppendedToStream /\ LastStored # <<>>)
        => LastStream.lastIngestionTime = OldestIngestion(LastStored)

Groups == {GroupG, GroupH}
Streams == {StreamA, StreamB}

\* C18: every key that has stored events names a stream that is listed in
\* its group.
C18_EventsOfKnownStreams ==
    \A groupName \in Groups, streamName \in Streams :
        GetOr(rawEvents, EventsKey(Profile, Region, groupName, streamName)) # <<>>
            => FindStream(GetOr(rawStreams, StreamsKey(Profile, Region, groupName)),
                          streamName) # 0

-----------------------------------------------------------------------------
(* Claims about what reads and the clock leave alone, checked under        *)
(* SpecFrame.                                                              *)

\* a step that is not an append: a list call, a query or a tick
NoAppendStep ==
    \/ last' # last /\ last'.op \in Reads
    \/ now' # now

\* C16: listGroups, listStreams and queryEvents calls and the passage of
\* time leave every stored group list, every stored stream list, with its
\* order and the three timestamps of each stream, and every stored event
\* list as they are.
C16_NoSpontaneousAdvance ==
    [][NoAppendStep => /\ rawGroups' = rawGroups
                       /\ rawStreams' = rawStreams
                       /\ rawEvents' = rawEvents]_vars

\* the stored streams of the group the last call addressed
LastStreams ==
    GetOr(rawStreams, StreamsKey(last.profile, last.region, last.groupName))

\* a stored event that the next append would make lastEventTimestamp
WouldAdvance(stream, events) ==
    \E i \in 1..Len(events) :
        Visible(events[i].timestamp, now, ingestionDelay,
                stream.lastIngestionTime, stream.lastEventTimestamp)

\* a list call by name has returned a page of streams that are stored in
\* another order, at a time when an append would advance lastEventTimestamp
C16_Witness ==
    /\ last.op = "describeLogStreams"
    /\ last.err = ""
    /\ last.orderBy = ""
    /\ last.items # <<>>
    /\ LastStreams # Sort(LastStreams, "streams")
    /\ \E i \in 1..Len(LastStreams) :
           /\ Truthy(LastStreams[i].lastEventTimestamp)
           /\ WouldAdvance(LastStreams[i],
                           GetOr(rawEvents,
                                 EventsKey(last.profile, last.region,
                                           last.groupName,
                                           LastStreams[i].logStreamName)))

-----------------------------------------------------------------------------
(* Claims about the pages of listGroups, checked under SpecGroups. *)

\* a listGroups step that returns a page of a scope with stored groups
GroupsPageStep ==
    /\ last' # last
    /\ last'.op = "describeLogGroups"
    /\ last'.err = ""
    /\ ScopeKey(last'.profile, last'.region) \in DOMAIN rawGroups
    /\ last'.token \in DOMAIN tokens \cup {NoToken}

\* the offset the token of the step resolves to, 0 without token
StepOffset == IF last'.token = NoToken THEN 0 ELSE tokens[last'.token].offset

\* the limit of the step, 50 by default
StepLimit == IF last'.limit = 0 THEN DefaultListLimit ELSE last'.limit

\* groups[o : o+L] for an offset o that is not negative
PageOfGroups(groups, o, L) ==
    [i \in 1..Max(0, Min(Len(groups), o + L) - o) |-> groups[o + i]]

\* the page, the token and the offset of the token that C20 states
PageShape ==
    LET groups == rawGroups[ScopeKey(last'.profile, last'.region)]
        o == StepOffset
        L == StepLimit
    IN  /\ last'.items = IF o >= 0 THEN PageOfGroups(groups, o, L)
                          ELSE Slice(groups, o, o + L)
        /\ (last'.nextToken # NoToken) <=> (Len(groups) > o + L)
        /\ last'.nextToken # NoToken =>
               /\ last'.nextToken \in DOMAIN tokens'
               /\ last'.nextToken \notin DOMAIN tokens
               /\ tokens'[last'.nextToken].offset = o + L
               /\ ~tokens'[last'.nextToken].isNaN

\* an append of groups puts them behind the groups stored before
GroupsAppended ==
    LET key == ScopeKey(last'.profile, last'.region)
    IN  rawGroups'[key] = GetOr(rawGroups, key) \o last'.batch

\* C20: listGroups for a scope with stored groups, resolved offset o (0
\* without token) and limit L (default 50) returns groups[o : o+L] of the
\* stored list, which holds the groups of all appends in the order of their
\* insertion, and returns a nextToken exactly when the list has more than
\* o+L items; that token resolves to offset o+L.
C20_ListPageShape ==
    [][/\ GroupsPageStep => PageShape
       /\ (last' # last /\ last'.op = "populateGroups") => GroupsAppended]_vars

\* the second page of three groups that arrived in two appends, with limit
\* 1, and a token for the third
C20_Witness ==
    /\ last.op = "describeLogGroups"
    /\ last.err = ""
    /\ last.token # NoToken
    /\ last.limit = 1
    /\ last.offset = 1
    /\ rawGroups[ScopeKey(last.profile, last.region)] = <<GroupH, GroupG, <<"q">>>>
    /\ last.items = <<GroupG>>
    /\ last.nextToken \in DOMAIN tokens
    /\ tokens[last.nextToken].offset = 2

-----------------------------------------------------------------------------
(* Claims about requests in flight, checked under SpecRequests. *)

\* both requests presented the same registered token, were in flight at the
\* same time and have been answered
AnsweredPair ==
    /\ \A r \in Requests : inflight[r].state = "done" /\ inflight[r].overlap
    /\ inflight["r1"].token = inflight["r2"].token

\* request r obtained a page
GotPage(r) == inflight[r].out.err = ""

\* request r was refused with the invalid-token error
Refused(r) == inflight[r].out.err = InvalidToken

\* C19 as the specification states it: of two requests that present the
\* same registered token and are processed concurrently, exactly one
\* obtains a page and the other fails with the invalid-token error.
C19_ExactlyOnePage ==
    AnsweredPair =>
        \E r \in Requests : \A o \in Requests \ {r} : GotPage(r) /\ Refused(o)

\* C19, amended: of two such requests at most one has its token resolved;
\* when both get as far as looking the token up, exactly one obtains a page
\* and the other fails with the invalid-token error; a request that returns
\* before it looks its token up neither takes the token nor fails with the
\* invalid-token error.
C19_OneTakesToken ==
    AnsweredPair =>
        /\ ~(\A r \in Requests : inflight[r].out.resolved)
        /\ (\A r \in Requests : inflight[r].reached) =>
               \E r \in Requests : \A o \in Requests \ {r} :
                   /\ GotPage(r) /\ inflight[r].out.resolved
                   /\ Refused(o) /\ ~inflight[o].out.resolved
        /\ \A r \in Requests :
               /\ inflight[r].reached =>
                      \/ GotPage(r) /\ inflight[r].out.resolved
                      \/ Refused(r) /\ ~inflight[r].out.resolved
               /\ ~inflight[r].reached =>
                      ~Refused(r) /\ ~inflight[r].out.resolved
        /\ inflight["r1"].token \in DOMAIN tokens
               <=> \A r \in Requests : ~inflight[r].reached

\* two requests of different operations with one token were in flight
\* together; the one sent first was refused, the other got its page
C19_Witness ==
    /\ AnsweredPair
    /\ inflight["r1"].op = "describeLogGroups"
    /\ inflight["r2"].op = "getLogEvents"
    /\ \A r \in Requests : inflight[r].reached
    /\ Refused("r1")
    /\ GotPage("r2") /\ inflight["r2"].out.resolved
    /\ inflight["r2"].out.items # <<>>

-----------------------------------------------------------------------------
(* Claims about unknown keys, checked under Spec. *)

\* C21: listGroups for a scope that was never populated and queryEvents
\* for a stream key that never received events, called without token,
\* return an empty result without error and leave the store and the token
\* registry as they are.
C21_UnknownKeysReadEmpty ==
    [][(ReadStep /\ last'.token = NoToken
          /\ \/ /\ last'.op = "describeLogGroups"
                /\ ScopeKey(last'.profile, last'.region) \notin DOMAIN rawGroups
             \/ /\ last'.op = "getLogEvents"
                /\ EventsKey(last'.profile, last'.region, last'.groupName,
                             last'.streamName) \notin DOMAIN rawEvents)
          => /\ last'.err = ""
             /\ last'.items = <<>>
             /\ last'.nextToken = NoToken
             /\ last'.nextForwardToken = NoToken
             /\ last'.nextBackwardToken = NoToken
             /\ tokens' = tokens
             /\ store' = store]_vars

\* queryEvents without token on a stream that never received events, in a
\* group where another stream has events, returned nothing
C21_Witness ==
    /\ last.op = "getLogEvents"
    /\ last.token = NoToken
    /\ last.streamName = StreamB
    /\ EventsKey(Profile, Region, GroupG, StreamB) \notin DOMAIN rawEvents
    /\ EventsKey(Profile, Region, GroupG, StreamA) \in DOMAIN rawEvents
    /\ last.err = ""
    /\ last.items = <<>>

\* listGroups without token on a scope that was never populated returned
\* nothing
C21_WitnessGroups ==
    /\ last.op = "describeLogGroups"
    /\ last.token = NoToken
    /\ rawGroups = <<>>
    /\ rawStreams # <<>>
    /\ last.err = ""
    /\ last.items = <<>>

-----------------------------------------------------------------------------
(* Claims about the errors of listStreams, checked under SpecErrors. *)

\* a call of the populate method op
PopulateStep(op) == last'.op = op /\ (last' # last \/ store' # store)

\* a listStreams call
ListStreamsStep == last' # last /\ last'.op = "describeLogStreams"

\* the key of the group a step addresses
StepGroupKey == StreamsKey(last'.profile, last'.region, last'.groupName)

\* the keys of the groups an appendGroups step names
StepGroupKeys ==
    {StreamsKey(last'.profile, last'.region, last'.batch[i]) :
        i \in 1..Len(last'.batch)}

\* a group is known from the appendGroups that contains it or from an
\* appendStreams for it, also one with an empty list, and from nothing
\* else; a known group stays known
KnownByPopulate ==
    /\ DOMAIN rawStreams \subseteq DOMAIN rawStreams'
    /\ PopulateStep("populateGroups") => StepGroupKeys \subseteq DOMAIN rawStreams'
    /\ PopulateStep("populateStreams") => StepGroupKey \in DOMAIN rawStreams'
    /\ DOMAIN rawStreams' \ DOMAIN rawStreams \subseteq
           IF PopulateStep("populateGroups") THEN StepGroupKeys
           ELSE IF PopulateStep("populateStreams") THEN {StepGroupKey}
           ELSE {}

\* C22: a listStreams call with a group name and a valid orderBy fails with
\* the not-found error exactly when the group was never populated; a group
\* is known once an appendGroups contained it or an appendStreams, even
\* with an empty list, named it, and then listStreams returns a result, the
\* empty list for a group with zero streams; a known group never becomes
\* unknown.
C22_NotFoundOrEmpty ==
    [][/\ KnownByPopulate
       /\ (ListStreamsStep /\ last'.groupName # <<>>
              /\ last'.orderBy \in OrderByValues)
             => /\ last'.err = GroupNotFound
                      <=> StepGroupKey \notin DOMAIN rawStreams
                /\ (StepGroupKey \in DOMAIN rawStreams /\ last'.token = NoToken
                       /\ ~(last'.orderBy = "LastEventTime" /\ last'.prefix # <<>>))
                      => /\ last'.err = ""
                         /\ rawStreams[StepGroupKey] = <<>> => last'.items = <<>>
                         /\ rawStreams[StepGroupKey] # <<>> /\ last'.prefix = <<>>
                               => last'.items # <<>>]_vars

\* listStreams returned the empty list for a group that is known from an
\* appendStreams with an empty list only
C22_Witness ==
    /\ last.op = "describeLogStreams"
    /\ last.groupName = GroupG
    /\ rawGroups = <<>>
    /\ StreamsKey(Profile, Region, GroupG) \in DOMAIN rawStreams
    /\ rawStreams[StreamsKey(Profile, Region, GroupG)] = <<>>
    /\ last.err = ""
    /\ last.items = <<>>

\* listStreams failed with the not-found error for a group that was never
\* populated, in a scope where another group is known
C22_WitnessNotFound ==
    /\ last.op = "describeLogStreams"
    /\ last.groupName = GroupH
    /\ StreamsKey(Profile, Region, GroupH) \notin DOMAIN rawStreams
    /\ StreamsKey(Profile, Region, GroupG) \in DOMAIN rawStreams
    /\ last.err = GroupNotFound

\* C23: every listStreams call without group name, or with an empty one,
\* fails with the missing-key validation error, whatever orderBy, prefix and
\* token it carries and whatever is stored, and changes nothing.
C23_MissingGroupName ==
    [][(ListStreamsStep /\ last'.groupName = <<>>)
          => /\ last'.err = MissingGroupName
             /\ tokens' = tokens
             /\ store' = store]_vars

\* a call without group name, with an orderBy that is not accepted, a
\* prefix and a registered token failed with the missing-key error
C23_Witness ==
    /\ last.op = "describeLogStreams"
    /\ last.groupName = <<>>
    /\ last.orderBy \notin OrderByValues
    /\ last.prefix # <<>>
    /\ last.token \in DOMAIN tokens
    /\ last.err = MissingGroupName

\* C24: every listStreams call with a group name and an orderBy other than
\* LogStreamName and LastEventTime fails with the orderBy validation error,
\* also when the group was never populated.
C24_InvalidOrderBy ==
    [][(ListStreamsStep /\ last'.groupName # <<>>
            /\ last'.orderBy \notin OrderByValues)
          => /\ last'.err = InvalidOrderBy
             /\ tokens' = tokens
             /\ store' = store]_vars

\* a call with an orderBy that is not accepted, for a group that was never
\* populated, failed with the orderBy error
C24_Witness ==
    /\ last.op = "describeLogStreams"
    /\ last.groupName = GroupH
    /\ StreamsKey(Profile, Region, GroupH) \notin DOMAIN rawStreams
    /\ last.orderBy \notin OrderByValues
    /\ last.err = InvalidOrderBy

\* a listStreams call with a group name, orderBy LastEventTime and a prefix
PrefixConflictStep ==
    /\ ListStreamsStep
    /\ last'.groupName # <<>>
    /\ last'.orderBy = "LastEventTime"
    /\ last'.prefix # <<>>

\* the prefix conflict is reported for every known group
C25_ConflictOfKnownGroup ==
    [][(PrefixConflictStep /\ StepGroupKey \in DOMAIN rawStreams)
          => last'.err = PrefixConflict]_vars

\* C25: every listStreams call that combines orderBy LastEventTime with a
\* prefix fails with the prefix conflict error, whether the group is known
\* or not.
C25_PrefixConflict ==
    [][PrefixConflictStep => last'.err = PrefixConflict]_vars

\* the prefix conflict was reported for a known group, to a call with a
\* token, which stays registered
C25_Witness ==
    /\ last.op = "describeLogStreams"
    /\ last.groupName = GroupG
    /\ last.orderBy = "LastEventTime"
    /\ last.prefix # <<>>
    /\ last.token \in DOMAIN tokens
    /\ last.err = PrefixConflict

-----------------------------------------------------------------------------
(* Claims about the order of listStreams, checked under SpecOrder. *)

\* a listStreams step that returns a page
StreamsPageStep ==
    /\ ListStreamsStep
    /\ last'.err = ""
    /\ last'.token \in DOMAIN tokens \cup {NoToken}

\* the stored streams of the group of the step
StepStreams == rawStreams[StepGroupKey]

\* the arrangements of n items
Bijections(n) ==
    {f \in [1..n -> 1..n] : \A i, j \in 1..n : f[i] = f[j] => i = j}

\* the sequence s arranged by f
Arranged(s, f) == [i \in 1..Len(s) |-> s[f[i]]]

\* stream a goes before stream b by name: a has none and b has one, or the
\* name of a is the smaller string
NameBefore(a, b) ==
    IF a.logStreamName = <<>> THEN b.logStreamName # <<>>
    ELSE b.logStreamName # <<>> /\ StrLess(a.logStreamName, b.logStreamName)

\* seq is ascending by name, streams without a name first
NameSorted(seq) ==
    \A i, j \in 1..Len(seq) : i < j => ~NameBefore(seq[j], seq[i])

\* the step returned the page of seq at its offset, with a token for the
\* rest exactly when there is a rest
PagedOver(seq) ==
    /\ last'.items = PageOfGroups(seq, StepOffset, StepLimit)
    /\ (last'.nextToken # NoToken) <=> (Len(seq) > StepOffset + StepLimit)
    /\ last'.nextToken # NoToken =>
           /\ last'.nextToken \in DOMAIN tokens'
           /\ tokens'[last'.nextToken].offset = StepOffset + StepLimit

\* C26: listStreams without orderBy or with orderBy LogStreamName, without
\* descending and prefix, pages over the streams of the group arranged
\* ascending by name, the streams without a name first, whatever the order
\* of their insertion.
C26_DefaultOrder ==
    [][(StreamsPageStep /\ last'.orderBy \in {"", "LogStreamName"}
            /\ ~last'.descending /\ last'.prefix = <<>>)
          => \E f \in Bijections(Len(StepStreams)) :
                 /\ NameSorted(Arranged(StepStreams, f))
                 /\ PagedOver(Arranged(StepStreams, f))]_vars

\* the streams of the last call's group
LastGroupStreams ==
    rawStreams[StreamsKey(last.profile, last.region, last.groupName)]

\* a stream without a name, stored behind a named one, was listed first
C26_Witness ==
    /\ last.op = "describeLogStreams"
    /\ last.err = ""
    /\ last.orderBy = ""
    /\ ~last.descending
    /\ last.prefix = <<>>
    /\ last.limit = 0
    /\ Len(last.items) = 2
    /\ last.items[1].logStreamName = <<>>
    /\ LastGroupStreams[2].logStreamName = <<>>

\* C27: listStreams with descending pages over the exact reverse of the
\* sequence the same call pages over without descending.
C27_DescendingReverses ==
    [][(StreamsPageStep /\ last'.descending)
          => LET asc == OrderedStreams(StepStreams, last'.orderBy, FALSE,
                                       last'.prefix)
             IN  PagedOver([i \in 1..Len(asc) |-> asc[Len(asc) + 1 - i]])]_vars

\* the second page of a descending list by name with a prefix is the first
\* stream by name
C27_Witness ==
    /\ last.op = "describeLogStreams"
    /\ last.err = ""
    /\ last.descending
    /\ last.prefix = <<"a">>
    /\ last.token # NoToken
    /\ last.offset = 1
    /\ Len(LastGroupStreams) = 3
    /\ Len(last.items) = 1
    /\ last.items[1].logStreamName = StreamA

\* C28: listStreams with orderBy LastEventTime, without descending, returns
\* the streams of the group in ascending order of lastEventTimestamp.
C28_ByLastEventTime ==
    [][(StreamsPageStep /\ last'.orderBy = "LastEventTime" /\ ~last'.descending
            /\ last'.token = NoToken /\ last'.limit = 0)
          => \A i, j \in 1..Len(last'.items) :
                 (i < j /\ Truthy(last'.items[i].lastEventTimestamp)
                        /\ Truthy(last'.items[j].lastEventTimestamp))
                    => last'.items[i].lastEventTimestamp
                           <= last'.items[j].lastEventTimestamp]_vars

\* two streams have the same lastEventTimestamp, or one of them has none
SameOrUnset(a, b) ==
    \/ a.lastEventTimestamp = b.lastEventTimestamp
    \/ ~Truthy(a.lastEventTimestamp)
    \/ ~Truthy(b.lastEventTimestamp)

\* the arrangement f keeps the insertion order of the streams of seq whose
\* lastEventTimestamp is equal or unset
KeepsInsertionOrder(seq, f) ==
    \A i, j \in 1..Len(seq) :
        (i < j /\ SameOrUnset(seq[f[i]], seq[f[j]])) => f[i] < f[j]

\* C29: listStreams with orderBy LastEventTime pages over an arrangement of
\* the streams of the group that keeps the streams whose lastEventTimestamp
\* is equal or unset in the order of their insertion.
C29_TiesKeepInsertionOrder ==
    [][(StreamsPageStep /\ last'.orderBy = "LastEventTime" /\ ~last'.descending)
          => \E f \in Bijections(Len(StepStreams)) :
                 /\ KeepsInsertionOrder(StepStreams, f)
                 /\ PagedOver(Arranged(StepStreams, f))]_vars

\* two streams with the same lastEventTimestamp, stored against the order
\* of their names, were listed by LastEventTime in the order of insertion
C29_Witness ==
    /\ last.op = "describeLogStreams"
    /\ last.err = ""
    /\ last.orderBy = "LastEventTime"
    /\ ~last.descending
    /\ last.limit = 0
    /\ Len(last.items) = 3
    /\ last.items[1].logStreamName = StreamB
    /\ last.items[3].logStreamName = StreamA
    /\ Truthy(last.items[1].lastEventTimestamp)
    /\ last.items[1].lastEventTimestamp = last.items[3].lastEventTimestamp
    /\ ~Truthy(last.items[2].lastEventTimestamp)

\* the name begins with the prefix
HasPrefix(name, prefix) ==
    /\ Len(name) >= Len(prefix)
    /\ \A i \in 1..Len(prefix) : name[i] = prefix[i]

\* the streams of seq whose name begins with the prefix of the step
WithPrefix(seq) ==
    LET Named(x) == HasPrefix(x.logStreamName, last'.prefix)
    IN  SelectSeq(seq, Named)

\* C30: listStreams by name with a prefix pages over exactly the streams of
\* the group whose name starts with the prefix, ascending by name; page
\* sizes, offsets and the presence of nextToken are those of the filtered
\* sequence.
C30_PrefixFilter ==
    [][(StreamsPageStep /\ last'.orderBy \in {"", "LogStreamName"}
            /\ ~last'.descending /\ last'.prefix # <<>>)
          => \E f \in Bijections(Len(WithPrefix(StepStreams))) :
                 /\ NameSorted(Arranged(WithPrefix(StepStreams), f))
                 /\ PagedOver(Arranged(WithPrefix(StepStreams), f))]_vars

\* the second and last page of the two streams that match the prefix, of
\* three stored
C30_Witness ==
    /\ last.op = "describeLogStreams"
    /\ last.err = ""
    /\ ~last.descending
    /\ last.orderBy = ""
    /\ last.prefix = <<"a">>
    /\ last.token # NoToken
    /\ last.offset = 1
    /\ Len(LastGroupStreams) = 3
    /\ Len(last.items) = 1
    /\ last.items[1].logStreamName = <<"a", "b">>
    /\ last.nextToken = NoToken

-----------------------------------------------------------------------------
(* Claims about the time range of queryEvents, checked under SpecRange. *)

\* a queryEvents step that returns a page and has startTime or endTime
RangeStep ==
    /\ ReadStep
    /\ last'.op = "getLogEvents"
    /\ last'.err = ""
    /\ ~last'.offsetIsNaN
    /\ (last'.startTime # Undefined \/ last'.endTime # Undefined)

\* the event is in the range of the step: startTime is 0 when the request
\* has none, endTime is infinite when the request has none
InRange(e) ==
    /\ (IF last'.startTime = Undefined THEN 0 ELSE last'.startTime) <= e.timestamp
    /\ (last'.endTime = Undefined \/ e.timestamp < last'.endTime)

\* the stored events of the stream of the step that are in its range
StepRangeList ==
    SelectSeq(GetOr(rawEvents, EventsKey(last'.profile, last'.region,
                                         last'.groupName, last'.streamName)),
              InRange)

\* the page of the step is the window of the list at its offset
WindowOf(list) ==
    LET n == Len(list)
        start == Clamp(n - StepLimit - StepOffset, n)
        end == Clamp(n - StepOffset, n)
    IN  last'.items = SubSeq(list, start + 1, end)

\* C31: a query with startTime and/or endTime returns only events with
\* startTime <= timestamp < endTime (startTime 0 and endTime infinite when
\* not given), on every page.
C31_TimeRange ==
    [][RangeStep => \A i \in 1..Len(last'.items) : InRange(last'.items[i])]_vars

\* the part of C31 for times that are not 0: the page holds events of the
\* range only, and it is the window of the events of the range that have a
\* timestamp other than 0
C31_NonZeroRange ==
    [][(RangeStep /\ last'.startTime # 0 /\ last'.endTime # 0)
          => LET HasTime(e) == e.timestamp # 0
             IN  /\ \A i \in 1..Len(last'.items) : InRange(last'.items[i])
                 /\ WindowOf(SelectSeq(StepRangeList, HasTime))]_vars

\* the second page of a query with endTime 10 is the event of timestamp 2,
\* the second from the end of the events before 10 and the third of all
C31_Witness ==
    /\ QueryReturned
    /\ last.startTime = Undefined
    /\ last.endTime = 10
    /\ last.token # NoToken
    /\ last.offset = 1
    /\ Len(last.items) = 1
    /\ last.items[1].timestamp = 2
    /\ Len(GetOr(rawEvents, EventsKey(Profile, Region, GroupG, StreamA))) = 3

-----------------------------------------------------------------------------
(* Claims about the isolation of scopes, groups and streams, checked under *)
(* SpecScopes.                                                             *)

\* what a call addressed to a key can get from a map: whether the key is
\* known, and what is stored under it
View(map, key) == IF key \in DOMAIN map THEN <<map[key]>> ELSE <<>>

\* the last call of the step is a populate call of that kind for that scope
AddressedTo(ops, profile, region) ==
    /\ last'.op \in ops
    /\ last'.profile = profile
    /\ last'.region = region

\* the batch of the last call of the step names the group
NamesGroup(groupName) == \E i \in 1..Len(last'.batch) : last'.batch[i] = groupName

\* what is seen of the groups of a scope changes only by an appendGroups for
\* that scope
GroupsIsolated(profile, region) ==
    View(rawGroups', ScopeKey(profile, region))
            # View(rawGroups, ScopeKey(profile, region))
        => AddressedTo({"populateGroups"}, profile, region)

\* what is seen of the streams of a group changes only by an appendGroups
\* for its scope that names it, or by an appendStreams or appendEvents for
\* that scope and group
StreamsIsolated(profile, region, groupName) ==
    View(rawStreams', StreamsKey(profile, region, groupName))
            # View(rawStreams, StreamsKey(profile, region, groupName))
        => \/ AddressedTo({"populateGroups"}, profile, region) /\ NamesGroup(groupName)
           \/ /\ AddressedTo({"populateStreams", "populateEvents"}, profile, region)
              /\ last'.groupName = groupName

\* the metadata of a stream changes only by an appendEvents for its scope,
\* group and name
MetadataIsolated(profile, region, groupName) ==
    LET key == StreamsKey(profile, region, groupName)
    IN  (key \in DOMAIN rawStreams /\ key \in DOMAIN rawStreams') =>
            \A i \in 1..Min(Len(rawStreams[key]), Len(rawStreams'[key])) :
                rawStreams'[key][i] # rawStreams[key][i]
                    => /\ AddressedTo({"populateEvents"}, profile, region)
                       /\ last'.groupName = groupName
                       /\ last'.streamName = rawStreams[key][i].logStreamName

\* what is seen of the events of a stream changes only by an appendEvents
\* for that scope, group and stream
EventsIsolated(profile, region, groupName, streamName) ==
    View(rawEvents', EventsKey(profile, region, groupName, streamName))
            # View(rawEvents, EventsKey(profile, region, groupName, streamName))
        => /\ AddressedTo({"populateEvents"}, profile, region)
           /\ last'.groupName = groupName
           /\ last'.streamName = streamName

\* the step leaves alone what the calls addressed to other scopes, groups
\* and streams of these names get
IsolatedOver(regions, groupNames, streamNames) ==
    \A region \in regions :
        /\ GroupsIsolated(Profile, region)
        /\ \A groupName \in groupNames :
               /\ StreamsIsolated(Profile, region, groupName)
               /\ MetadataIsolated(Profile, region, groupName)
               /\ \A streamName \in streamNames :
                      EventsIsolated(Profile, region, groupName, streamName)

\* C32: what a list or query addressed to one scope, group name and stream
\* name gets, events and stream metadata, is changed only by appends under
\* that scope, group name and stream name, for all names.
C32_Isolation == [][IsolatedOver(Regions, GroupNames, StreamNames)]_vars

\* the part of C32 for names without "::"
C32_PlainNames == [][IsolatedOver(Regions, {GroupG}, {StreamB})]_vars

\* events were appended under group g and stream b of both regions, with
\* different metadata of the stream, and a query of one region returned its
\* events
C32_Witness ==
    /\ QueryReturned
    /\ last.region = RegionS
    /\ last.groupName = GroupG
    /\ last.streamName = StreamB
    /\ Len(last.items) = 3
    /\ EventsKey(Profile, Region, GroupG, StreamB) \notin DOMAIN rawEvents
    /\ GetOr(rawStreams, StreamsKey(Profile, Region, GroupG)) # <<>>
    /\ GetOr(rawStreams, StreamsKey(Profile, RegionS, GroupG)) # <<>>
    /\ rawStreams[StreamsKey(Profile, Region, GroupG)][1].lastEventTimestamp
           = Undefined
    /\ rawStreams[StreamsKey(Profile, RegionS, GroupG)][1].lastEventTimestamp = 10

-----------------------------------------------------------------------------
(* Claims about malformed batches, checked under SpecBatches. *)

\* the event lacks a numeric timestamp, a string message or a numeric
\* ingestionTime
MalformedEvent(e) ==
    e.timestamp = Undefined \/ e.message = "" \/ e.ingestionTime = Undefined

\* the batch is empty or holds a malformed event
Malformed(batch) ==
    batch = <<>> \/ \E i \in 1..Len(batch) : MalformedEvent(batch[i])

\* C33: appendEvents with an empty batch, or with any event whose timestamp
\* is not a number, whose message is not a string or whose ingestionTime is
\* not a number, fails and leaves the event lists and the stream metadata
\* unchanged.
C33_MalformedRefused ==
    [][(last'.op = "populateEvents" /\ last' # last /\ Malformed(last'.batch))
          => /\ last'.err # ""
             /\ rawEvents' = rawEvents
             /\ rawStreams' = rawStreams]_vars

\* a batch whose second event has no ingestionTime was refused at a stream
\* that has events and metadata
C33_Witness ==
    /\ AppendedToStream
    /\ Len(last.batch) = 2
    /\ ~MalformedEvent(last.batch[1])
    /\ last.batch[2].ingestionTime = Undefined
    /\ last.err = "Must have ingestionTime"
    /\ Len(GetOr(rawEvents, EventsKey(Profile, Region, GroupG, StreamA))) = 1
    /\ LastStream.lastEventTimestamp = 9

-----------------------------------------------------------------------------
(* Claims about the new value of lastEventTimestamp, checked under         *)
(* SpecAppend.                                                             *)

\* the stored timestamps that qualify in the step: below now - D, below the
\* new lastIngestionTime - D and above the old lastEventTimestamp
Qualifying ==
    {t \in {StepStored[i].timestamp : i \in 1..Len(StepStored)} :
        /\ t < now - ingestionDelay
        /\ t < StepStreamAfter.lastIngestionTime - ingestionDelay
        /\ t > StepStream.lastEventTimestamp}

\* C34: an appendEvents on a stream whose lastEventTimestamp is set leaves
\* it at the largest stored timestamp that qualifies, whatever the numbers
\* of digits of the stored timestamps, and leaves it unchanged when none
\* qualifies.
C34_LargestQualifying ==
    [][(ListedStep /\ last'.err = "" /\ Truthy(StepStream.lastEventTimestamp))
          => IF Qualifying = {}
               THEN StepStreamAfter.lastEventTimestamp
                        = StepStream.lastEventTimestamp
             ELSE \A t \in Qualifying :
                      t <= StepStreamAfter.lastEventTimestamp]_vars

\* the part of C34 for stored timestamps of one digit
C34_SameDigits ==
    [][(ListedStep /\ last'.err = "" /\ Truthy(StepStream.lastEventTimestamp)
            /\ \A i \in 1..Len(StepStored) : StepStored[i].timestamp < 10)
          => IF Qualifying = {}
               THEN StepStreamAfter.lastEventTimestamp
                        = StepStream.lastEventTimestamp
             ELSE /\ StepStreamAfter.lastEventTimestamp \in Qualifying
                  /\ \A t \in Qualifying :
                         t <= StepStreamAfter.lastEventTimestamp]_vars

\* an append moved lastEventTimestamp from 2 to 9, the largest of the stored
\* timestamps
C34_Witness ==
    /\ AppendedToStream
    /\ last.err = ""
    /\ LastStream.firstEventTimestamp = 2
    /\ LastStream.lastEventTimestamp = 9
    /\ Len(last.batch) = 1
    /\ last.batch[1].timestamp = 9
    /\ Len(LastStored) = 2

-----------------------------------------------------------------------------
(* Claims about pages with appends in between, checked under               *)
(* SpecInterleave.                                                         *)

\* the client has followed nextBackwardToken to an empty page, with or
\* without appends in between
InterleavedWalkDone ==
    /\ walk.active
    /\ walk.req.op = "getLogEvents"
    /\ walk.req.limit > 0
    /\ \A i \in DOMAIN walk.dirs : walk.dirs[i] = "b"
    /\ walk.pages[Len(walk.pages)] = <<>>

\* how often e occurs in seq
Count(e, seq) == Cardinality({i \in 1..Len(seq) : seq[i] = e})

\* the events of the client's stream that were stored before its first page
StoredBeforeWalk ==
    LET Early(e) == e.ingestionTime = 5
    IN  SelectSeq(WalkList, Early)

\* the pages omit no event that was stored before the first page
NoOmission ==
    \A i \in 1..Len(StoredBeforeWalk) :
        Count(StoredBeforeWalk[i], Concat(walk.pages))
            >= Count(StoredBeforeWalk[i], StoredBeforeWalk)

\* the pages hold no event more often than it is stored
NoDuplicate ==
    \A i \in 1..Len(Concat(walk.pages)) :
        Count(Concat(walk.pages)[i], Concat(walk.pages))
            <= Count(Concat(walk.pages)[i], WalkList)

\* C35 as the specification states it: the backward pages of a fixed
\* limit, with appends to the stream in between, contain no event twice and
\* omit no event that was stored before the first page.
C35_NoDuplicateNoOmission == InterleavedWalkDone => (NoDuplicate /\ NoOmission)

\* C35, amended: the backward pages of a fixed limit, followed to an empty
\* page with appends to the stream in between, omit no event that was
\* stored before the first page; they hold no event twice when nothing was
\* appended in between.
C35_NoOmission ==
    InterleavedWalkDone => (NoOmission /\ (~walk.appended => NoDuplicate))

\* the client got the event of timestamp 9 on two pages, and the older
\* event after it, while a younger event arrived
C35_Witness ==
    /\ InterleavedWalkDone
    /\ walk.appended
    /\ Len(walk.pages) = 4
    /\ walk.pages[1] = walk.pages[2]
    /\ walk.pages[3] = <<MakeLogEvent(2, 5)>>

-----------------------------------------------------------------------------
(* Claims about the end of a walk, checked under SpecTerminate. *)

\* the client has made at most ceil(n / limit) + 1 calls for its list of n
\* items
WithinBound ==
    walk.active => Len(walk.pages) <= CeilDiv(Len(WalkList), walk.req.limit) + 1

\* C36: with no append in between and a positive limit, a client that
\* repeats listGroups or listStreams with nextToken gets a page without
\* nextToken, and one that repeats queryEvents with nextBackwardToken gets
\* an empty page, after at most ceil(n / limit) + 1 calls for n items.
C36_Terminates == [](WithinBound) /\ (walk.active ~> (walk.active /\ WalkEnded))

\* a query walk over three events with limit 1 ended with its fourth call
C36_Witness ==
    /\ walk.active
    /\ walk.req.op = "getLogEvents"
    /\ WalkEnded
    /\ ~walk.appended
    /\ walk.req.limit = 1
    /\ Len(WalkList) = 3
    /\ Len(walk.pages) = 4

\* a listStreams walk over three streams with limit 1 ended with its third
\* call
C36_WitnessList ==
    /\ walk.active
    /\ walk.req.op = "describeLogStreams"
    /\ WalkEnded
    /\ walk.req.limit = 1
    /\ Len(WalkList) = 3
    /\ Len(walk.pages) = 3

-----------------------------------------------------------------------------
(* Claims about the token of a refused listStreams call, checked under     *)
(* SpecErrors.                                                             *)

\* the errors listStreams reports for its parameters and for an unknown
\* group
StreamsErrors == {MissingGroupName, InvalidOrderBy, PrefixConflict, GroupNotFound}

\* C37: a listStreams call that fails with a validation error or with the
\* not-found error leaves the token registry unchanged; the token it
\* presented, if registered, stays registered with the same offset.
C37_RefusedKeepsToken ==
    [][(ListStreamsStep /\ last'.err \in StreamsErrors)
          => /\ tokens' = tokens
             /\ last'.token \in DOMAIN tokens
                   => /\ last'.token \in DOMAIN tokens'
                      /\ tokens'[last'.token] = tokens[last'.token]
                      /\ last'.token \notin consumed']_vars

\* a call for an unknown group presented a registered token, which is
\* still registered
C37_Witness ==
    /\ last.op = "describeLogStreams"
    /\ last.err = GroupNotFound
    /\ last.token \in DOMAIN tokens
    /\ last.token \notin consumed

-----------------------------------------------------------------------------
(* Claims about the metadata of a stream, checked under SpecMeta. *)

\* the events stored for the i-th stream of the list under key
EventsOfStream(key, i) ==
    GetOr(rawEvents, key \o Sep \o rawStreams[key][i].logStreamName)

-----------------------------------------------------------------------------
(* Claims about well-formed batches, checked under SpecAppend. *)

\* an appendEvents step to a listed stream with a batch that is not empty
\* and whose events all have a numeric timestamp, a string message and a
\* numeric ingestionTime
WellFormedStep ==
    /\ last'.op = "populateEvents"
    /\ last' # last
    /\ ~Malformed(last'.batch)
    /\ FindStream(GetOr(rawStreams, StreamsKey(last'.profile, last'.region,
                                               last'.groupName)),
                  last'.streamName) # 0

\* the events stored, before the step, for the stream the step addresses
StoredBefore ==
    GetOr(rawEvents, EventsKey(last'.profile, last'.region, last'.groupName,
                               last'.streamName))

\* the timestamps and ingestionTimes of the batch are all other than 0
NoZero(batch) ==
    \A i \in 1..Len(batch) :
        batch[i].timestamp # 0 /\ batch[i].ingestionTime # 0

\* C39: appendEvents to a listed stream that has no events yet, with a
\* well-formed batch (timestamps and ingestionTimes of 0 included),
\* completes without error; and a later well-formed append to that stream
\* fails with nothing but the consistency error of an event older than the
\* stream's first one.
C39_WellFormedAccepted ==
    [][WellFormedStep
          => /\ StoredBefore = <<>> => last'.err = ""
             /\ last'.err \in {"", ConsistencyError}]_vars

\* the same for batches and stored events without a 0: the part of the
\* statement the code does keep
C39_NoZeroAccepted ==
    [][(WellFormedStep /\ NoZero(last'.batch) /\ NoZero(StoredBefore))
          => /\ StoredBefore = <<>> => last'.err = ""
             /\ last'.err \in {"", ConsistencyError}]_vars

\* a well-formed batch without a 0 was refused for the event of timestamp 0
\* that an earlier, refused batch left in the stream
C39_Witness ==
    /\ AppendedToStream
    /\ ~Malformed(last.batch)
    /\ NoZero(last.batch)
    /\ last.err = "valid timestamp"
    /\ \E i \in 1..Len(LastStored) : LastStored[i].timestamp = 0
    /\ LastStream.firstEventTimestamp = Undefined


=============================================================================
